---- MODULE Spec2Model ----
(***************************************************************************)
(* BotiBot medication dispenser server (src/server/main.py): the           *)
(* medication dispense scheduler, the schedule matcher and the audio       *)
(* alert throttle, as state machines over one wall clock in seconds.       *)
(*                                                                         *)
(* Time is counted in whole seconds since a Monday 00:00:00 local time     *)
(* (GMT+8, no daylight saving), so that weekday, hour and minute of an     *)
(* instant are arithmetic on it.                                           *)
(***************************************************************************)
EXTENDS Integers, Sequences, FiniteSets, TLC

(***************************************************************************)
(* Program constants                                                       *)
(***************************************************************************)
AUDIO_COOLDOWN == 30
DISPENSE_COOLDOWN == 300
TOLERANCE_MINUTES == 5
POLL_SLEEP == 60
ALERT_PAUSE == 2
SERVO_DELAY == 3
SERVO_OPEN == 90
SERVO_CLOSE == 0
STEPPER_STEPS == 100
TEMP_HIGH == 375
TEMP_LOW == 350

(***************************************************************************)
(* Bounds of the model                                                     *)
(***************************************************************************)
MaxLoops == 2         \* monitor loop threads that start may create
MaxManual == 1        \* concurrent check-now requests
MaxApiCalls == 3      \* start/stop requests
MaxCycles == 10       \* poll cycles of the loop in the sequential specification
MaxConcCycles == 2    \* poll cycles per loop in the concurrent specification
MaxJitter == 1        \* extra seconds a 60 s sleep may take
MaxAlertCalls == 3    \* throttle consultations in the alert specification
MaxAlertTicks == 3    \* clock steps in the alert specification
MaxRaceTicks == 2     \* clock steps in the throttle race specification

SecondsPerDay == 24 * 60 * 60
MinutesPerDay == 1440
HalfDayMinutes == 720

Abs(x) == IF x < 0 THEN -x ELSE x

(***************************************************************************)
(* datetime fields of an instant                                           *)
(***************************************************************************)
HourOf(t) == (t % SecondsPerDay) \div 3600
MinuteOf(t) == (t % 3600) \div 60
WeekdayOf(t) == (t \div SecondsPerDay) % 7      \* 0 = Monday .. 6 = Sunday

(***************************************************************************)
(* Schedule time strings.  "h:mm AM" / "h:mm PM" / "HH:MM" are the records *)
(* [h, m, ap] with ap "AM", "PM" or "24H"; ap = "BAD" is a string that     *)
(* holds no AM/PM and does not split into two integers.                    *)
(***************************************************************************)
T(h, m, ap) == [h |-> h, m |-> m, ap |-> ap]

\* The parsed form: [ok, hours, minutes]; ok = FALSE is the string handed back
\* unchanged, on which the callers' int(...) raises.
parse_12hr_time_to_24hr(ts) ==
    IF ts.ap = "BAD" THEN [ok |-> FALSE, hours |-> 0, minutes |-> 0]
    ELSE IF ts.ap = "PM" /\ ts.h # 12 THEN [ok |-> TRUE, hours |-> ts.h + 12, minutes |-> ts.m]
    ELSE IF ts.ap = "AM" /\ ts.h = 12 THEN [ok |-> TRUE, hours |-> 0, minutes |-> ts.m]
    ELSE [ok |-> TRUE, hours |-> ts.h, minutes |-> ts.m]

is_am_time_Suffix(ts) == ts.ap = "AM"

is_am_time(ts) ==
    LET p == parse_12hr_time_to_24hr(ts)
    IN  IF p.ok THEN 6 <= p.hours /\ p.hours < 12 ELSE TRUE

\* schedule_time against the hour and minute of current_time, tolerance in minutes
MatchesAt_NoWrap(ts, hour, minute, tol) ==
    LET p == parse_12hr_time_to_24hr(ts)
        diff == Abs((p.hours * 60 + p.minutes) - (hour * 60 + minute))
    IN  p.ok /\ diff <= tol

MatchesAt(ts, hour, minute, tol) ==
    LET p == parse_12hr_time_to_24hr(ts)
        schedule_total_minutes == p.hours * 60 + p.minutes
        current_total_minutes == hour * 60 + minute
        diff0 == Abs(schedule_total_minutes - current_total_minutes)
        diff == IF diff0 > HalfDayMinutes THEN MinutesPerDay - diff0 ELSE diff0
    IN  p.ok /\ diff <= tol

time_matches_schedule(ts, t) == MatchesAt(ts, HourOf(t), MinuteOf(t), TOLERANCE_MINUTES)

should_dispense_medication_FirstOnly(med, t) ==
    /\ med.is_active
    /\ \/ med.frequency = "daily"
       \/ med.frequency = "specific_days" /\ WeekdayOf(t) \in med.days_of_week
    /\ Len(med.times) > 0 /\ time_matches_schedule(med.times[1], t)

should_dispense_medication_AnyDay(med, t) ==
    /\ med.is_active
    /\ med.frequency \in {"daily", "specific_days"}
    /\ \E k \in 1..Len(med.times) : time_matches_schedule(med.times[k], t)

\* should_dispense_medication at the instant t its own clock read returns
should_dispense_medication(med, t) ==
    /\ med.is_active
    /\ \/ med.frequency = "daily"
       \/ med.frequency = "specific_days" /\ WeekdayOf(t) \in med.days_of_week
    /\ \E k \in 1..Len(med.times) : time_matches_schedule(med.times[k], t)

\* the list current_time_matches of check_medication_schedules
current_time_matches(med, t) ==
    SelectSeq(med.times, LAMBDA ts : time_matches_schedule(ts, t))

(***************************************************************************)
(* State                                                                   *)
(***************************************************************************)
VARIABLES
    now,                          \* the wall clock
    t0,                           \* the instant the run began
    meds,                         \* the medication_schedules collection
    cycleCap,                     \* poll cycles a loop may begin in this run
    jitterCap,                    \* extra seconds a 60 s sleep may take in this run
    medication_monitoring_active,
    nLoops,                       \* monitor loop threads created so far
    last_dispensed_medications,   \* schedule id -> timestamp, NoRecord when absent
    pc, idx, cycleTime, wake, use_stepper, cycles,   \* per runner of check_medication_schedules
    servo_threads,                \* wake times of the pending return_servo_to_close threads
    events,                       \* what was sent to the transport and the audio player, in order
    apiCalls, lastOp,             \* start/stop requests handled, and the last one
    last_audio_alerts,            \* alert class -> time.time() of its last approval, 0 at first
    sensor_data,                  \* channel -> the reading stored for it
    nmsg,                         \* messages on_message has handled
    last_msg,                     \* the last of them: topic, payload, the store before it
    alog,                         \* the calls of should_play_audio_alert, in order
    areqs,                        \* the play_audio_threaded requests of the alert evaluator
    aticks,                       \* clock steps taken in the alert specifications
    tpc, tcls, tcur, tret,        \* per thread inside should_play_audio_alert
    m_sched, m_hour, m_minute, m_result, m_done,  \* one evaluation of time_matches_schedule
    faults,                       \* what the transport and the database may do wrong in this run
    audio_lock,                   \* TRUE while some audio_task holds the lock
    audio_playing,                \* the flag the lock holder sets and clears
    in_flight,                    \* the playbacks inside the audio player now
    audio_log,                    \* the playback requests made so far and what became of them
    clients,                      \* SimpleMQTTBroker: client id -> its own subscription set
    subscriptions,                \* SimpleMQTTBroker: topic -> the ids subscribed to it
    bpc, btopic, bpending,        \* per handle_client thread: position, topic, recipients left
    deliveries                    \* the messages the broker sent: topic, sender, recipient

storeVars == <<sensor_data, nmsg, last_msg>>

alertVars == <<last_audio_alerts, storeVars, alog, areqs, aticks>>

raceVars == <<tpc, tcls, tcur, tret>>

matchVars == <<m_sched, m_hour, m_minute, m_result, m_done>>

audioVars == <<audio_lock, audio_playing, in_flight, audio_log>>

\* what the scheduler's steps never write
brokerVars == <<clients, subscriptions, bpc, btopic, bpending, deliveries>>

envVars == <<t0, meds, cycleCap, jitterCap, faults, brokerVars, audioVars, alertVars, raceVars,
             matchVars>>

schedVars == <<medication_monitoring_active, nLoops, last_dispensed_medications, pc, idx,
               cycleTime, wake, use_stepper, cycles, servo_threads, events, apiCalls, lastOp>>

vars == <<now, envVars, schedVars>>

NoRecord == -1

Loops == 1..MaxLoops
Manuals == (MaxLoops + 1)..(MaxLoops + MaxManual)
Runners == Loops \cup Manuals

(***************************************************************************)
(* Schedules and start instants the runs draw from                         *)
(***************************************************************************)
Med(id, freq, days, times) ==
    [id |-> id, is_active |-> TRUE, frequency |-> freq, days_of_week |-> days, times |-> times]

MedMorning == Med(1, "daily", {}, <<T(8, 0, "AM")>>)
MedTwice == Med(2, "daily", {}, <<T(8, 0, "AM"), T(8, 3, "AM")>>)
MedNight == Med(3, "daily", {}, <<T(11, 58, "PM")>>)

ScheduleLists == { <<MedMorning>>, <<MedTwice>>, <<MedMorning, MedNight>>, <<MedNight, MedTwice>> }

At(day, h, m, s) == day * SecondsPerDay + h * 3600 + m * 60 + s

StartTimes == { At(0, 8, 0, 0), At(0, 7, 54, 0), At(0, 23, 52, 58) }

MedIds == {1, 2, 3}

\* find({'is_active': True})
Cursor == SelectSeq(meds, LAMBDA m : m.is_active)

(***************************************************************************)
(* Initial states                                                          *)
(***************************************************************************)
AlertClasses == {"high_temp", "low_temp", "high_bpm", "low_bpm", "normal_bpm", "alcohol",
                 "motion", "mqtt_connected", "system_startup"}

Threads == {1, 2}

\* the channels of sensor_data
NumericChannels == {"temp", "distance", "weight_value", "gyro_y", "gyro_z", "load", "bpm",
                    "alcohol"}

AxisChannels == {"gyro", "accel"}

Channels == NumericChannels \cup AxisChannels \cup {"weight_status"}

\* one key of a JSON object or of a stored reading: a number v, or (num = FALSE) a
\* value float() does not accept
F(k, v) == [k |-> k, num |-> TRUE, v |-> v]

NaF(k) == [k |-> k, num |-> FALSE, v |-> 0]

\* a stored reading: its keys in order, and its 'timestamp'
Reading(data, t) == [data |-> data, ts |-> t]

Value(v, t) == Reading(<<F("value", v)>>, t)

NoMessage == [topic |-> "none"]

InitAlert ==
    /\ last_audio_alerts = [a \in AlertClasses |-> 0]
    /\ sensor_data = [c \in Channels |->
                          IF c \in AxisChannels
                          THEN Reading(<<F("x", 0), F("y", 0), F("z", 0)>>, t0)
                          ELSE IF c = "weight_status" THEN Reading(<<NaF("status")>>, t0)
                          ELSE Value(0, t0)]
    /\ nmsg = 0
    /\ last_msg = NoMessage
    /\ alog = <<>>
    /\ areqs = <<>>
    /\ aticks = 0

InitRace ==
    /\ tpc = [t \in Threads |-> "idle"]
    /\ tcls = [t \in Threads |-> "none"]
    /\ tcur = [t \in Threads |-> 0]
    /\ tret = [t \in Threads |-> FALSE]

InitMatch ==
    /\ m_sched = T(8, 0, "AM")
    /\ m_hour = 0
    /\ m_minute = 0
    /\ m_result = FALSE
    /\ m_done = FALSE

\* no playback requested yet
InitAudio ==
    /\ audio_lock = FALSE
    /\ audio_playing = FALSE
    /\ in_flight = {}
    /\ audio_log = <<>>

MaxClients == 2

ClientIds == 1..MaxClients

BrokerTopics == {"sensors/temp", "actuators/servo"}

\* SimpleMQTTBroker.__init__, no connection accepted yet
InitBroker ==
    /\ clients = <<>>
    /\ subscriptions = <<>>
    /\ bpc = [c \in ClientIds |-> "none"]
    /\ btopic = [c \in ClientIds |-> "sensors/temp"]
    /\ bpending = [c \in ClientIds |-> {}]
    /\ deliveries = {}

\* the broker takes every command and the database answers every query
NoFaults == faults = {}

InitSched(starts, lists, cap, jit) ==
    /\ now \in starts
    /\ t0 = now
    /\ meds \in lists
    /\ cycleCap = cap
    /\ jitterCap = jit
    /\ medication_monitoring_active = FALSE
    /\ nLoops = 0
    /\ last_dispensed_medications = [i \in MedIds |-> NoRecord]
    /\ pc = [r \in Runners |-> "idle"]
    /\ idx = [r \in Runners |-> 0]
    /\ cycleTime = [r \in Runners |-> 0]
    /\ wake = [r \in Runners |-> 0]
    /\ use_stepper = [r \in Runners |-> TRUE]
    /\ cycles = [r \in Runners |-> 0]
    /\ servo_threads = <<>>
    /\ events = <<>>
    /\ apiCalls = 0
    /\ lastOp = "none"

ConcStartTimes == { At(0, 23, 58, 0) }

ConcScheduleLists == { <<MedMorning, MedNight>> }

Init ==
    /\ InitSched(ConcStartTimes, ConcScheduleLists, MaxConcCycles, 0)
    /\ InitAlert /\ InitRace /\ InitMatch /\ InitAudio /\ InitBroker /\ NoFaults

(***************************************************************************)
(* start_medication_monitoring / stop_medication_monitoring                *)
(***************************************************************************)
start_medication_monitoring_Unguarded ==
    /\ apiCalls < MaxApiCalls
    /\ nLoops < MaxLoops
    /\ apiCalls' = apiCalls + 1
    /\ lastOp' = "started"
    /\ medication_monitoring_active' = TRUE
    /\ nLoops' = nLoops + 1
    /\ pc' = [pc EXCEPT ![nLoops + 1] = "test"]
    /\ UNCHANGED <<now, envVars, last_dispensed_medications, idx, cycleTime,
                   wake, use_stepper, cycles, servo_threads, events>>

\* lastOp is the outcome the function prints
start_medication_monitoring ==
    /\ apiCalls < MaxApiCalls
    /\ apiCalls' = apiCalls + 1
    /\ IF ~medication_monitoring_active
       THEN /\ nLoops < MaxLoops
            /\ medication_monitoring_active' = TRUE
            /\ nLoops' = nLoops + 1
            /\ pc' = [pc EXCEPT ![nLoops + 1] = "test"]
            /\ lastOp' = "started"
       ELSE /\ lastOp' = "already_active"
            /\ UNCHANGED <<medication_monitoring_active, nLoops, pc>>
    /\ UNCHANGED <<now, envVars, last_dispensed_medications, idx, cycleTime,
                   wake, use_stepper, cycles, servo_threads, events>>

stop_medication_monitoring ==
    /\ apiCalls < MaxApiCalls
    /\ apiCalls' = apiCalls + 1
    /\ lastOp' = IF medication_monitoring_active THEN "stopped" ELSE "not_active"
    /\ medication_monitoring_active' = FALSE
    /\ UNCHANGED <<now, envVars, nLoops, last_dispensed_medications, pc, idx,
                   cycleTime, wake, use_stepper, cycles, servo_threads, events>>

(***************************************************************************)
(* medication_monitor_loop                                                 *)
(***************************************************************************)
\* the while test; passing it begins a cycle, whose first statement reads the clock
LoopTest_IgnoreFlag(l) ==
    /\ pc[l] = "test"
    /\ cycles[l] < cycleCap
    /\ pc' = [pc EXCEPT ![l] = "scan"]
    /\ cycleTime' = [cycleTime EXCEPT ![l] = now]
    /\ idx' = [idx EXCEPT ![l] = 1]
    /\ cycles' = [cycles EXCEPT ![l] = @ + 1]
    /\ UNCHANGED <<now, envVars, medication_monitoring_active, nLoops,
                   last_dispensed_medications, wake, use_stepper, servo_threads, events,
                   apiCalls, lastOp>>

\* what iterating the cursor of medication_schedules.find may do: TRUE is an answer,
\* FALSE an exception of the database driver
FindOutcomes == {TRUE} \cup (IF "find_raises" \in faults THEN {FALSE} ELSE {})

Ev(kind, what, id, r) == [kind |-> kind, what |-> what, med |-> id, by |-> r, t |-> now]

\* check_medication_schedules up to the for loop: the clock is read and the cursor
\* opened; an exception goes to the except clause that ends the function
BeginCycle(r) ==
    \E found \in FindOutcomes :
        /\ pc' = [pc EXCEPT ![r] = "scan"]
        /\ cycleTime' = [cycleTime EXCEPT ![r] = now]
        /\ cycles' = [cycles EXCEPT ![r] = @ + 1]
        /\ idx' = [idx EXCEPT ![r] = IF found THEN 1 ELSE Len(Cursor) + 1]
        /\ events' = IF found THEN events
                      ELSE Append(events, Ev("error", "check_medication_schedules", 0, r))

LoopTest_ExitOnError(l) ==
    /\ pc[l] = "test"
    /\ IF medication_monitoring_active
       THEN /\ cycles[l] < cycleCap
            /\ \E found \in FindOutcomes :
                   /\ pc' = [pc EXCEPT ![l] = IF found THEN "scan" ELSE "done"]
                   /\ cycleTime' = [cycleTime EXCEPT ![l] = now]
                   /\ cycles' = [cycles EXCEPT ![l] = @ + 1]
                   /\ idx' = [idx EXCEPT ![l] = 1]
                   /\ events' = IF found THEN events
                                 ELSE Append(events,
                                             Ev("error", "check_medication_schedules", 0, l))
       ELSE /\ pc' = [pc EXCEPT ![l] = "done"]
            /\ UNCHANGED <<cycleTime, idx, cycles, events>>
    /\ UNCHANGED <<now, envVars, medication_monitoring_active, nLoops,
                   last_dispensed_medications, wake, use_stepper, servo_threads,
                   apiCalls, lastOp>>

LoopTest(l) ==
    /\ pc[l] = "test"
    /\ IF medication_monitoring_active
       THEN /\ cycles[l] < cycleCap
            /\ BeginCycle(l)
       ELSE /\ pc' = [pc EXCEPT ![l] = "done"]
            /\ UNCHANGED <<cycleTime, idx, cycles, events>>
    /\ UNCHANGED <<now, envVars, medication_monitoring_active, nLoops,
                   last_dispensed_medications, wake, use_stepper, servo_threads,
                   apiCalls, lastOp>>

\* time.sleep(60) is over
LoopWake(l) ==
    /\ pc[l] = "sleep"
    /\ now >= wake[l]
    /\ pc' = [pc EXCEPT ![l] = "test"]
    /\ UNCHANGED <<now, envVars, medication_monitoring_active, nLoops,
                   last_dispensed_medications, idx, cycleTime, wake, use_stepper, cycles,
                   servo_threads, events, apiCalls, lastOp>>

\* check_medications_now: a request thread enters check_medication_schedules
check_medications_now(m) ==
    /\ pc[m] = "idle"
    /\ BeginCycle(m)
    /\ UNCHANGED <<now, envVars, medication_monitoring_active, nLoops,
                   last_dispensed_medications, wake, use_stepper, servo_threads,
                   apiCalls, lastOp>>

(***************************************************************************)
(* check_medication_schedules, one schedule of the cursor per step         *)
(***************************************************************************)
InCooldown_PollPeriod(id, t) ==
    /\ last_dispensed_medications[id] # NoRecord
    /\ (t - last_dispensed_medications[id]) < POLL_SLEEP

\* the cooldown test against the clock instant taken at the start of the cycle
InCooldown(id, t) ==
    /\ last_dispensed_medications[id] # NoRecord
    /\ (t - last_dispensed_medications[id]) < DISPENSE_COOLDOWN

CheckSchedule_NoAdvisory(r) ==
    /\ pc[r] = "scan"
    /\ idx[r] <= Len(Cursor)
    /\ LET med == Cursor[idx[r]]
           due == /\ ~InCooldown(med.id, cycleTime[r])
                  /\ should_dispense_medication(med, now)
                  /\ current_time_matches(med, cycleTime[r]) # <<>>
       IN  IF due
           THEN /\ use_stepper' = [use_stepper EXCEPT
                       ![r] = is_am_time(Head(current_time_matches(med, cycleTime[r])))]
                /\ pc' = [pc EXCEPT ![r] = "pause"]
                /\ wake' = [wake EXCEPT ![r] = now + ALERT_PAUSE]
                /\ UNCHANGED <<idx, events>>
           ELSE /\ idx' = [idx EXCEPT ![r] = @ + 1]
                /\ UNCHANGED <<use_stepper, events, pc, wake>>
    /\ UNCHANGED <<now, envVars, medication_monitoring_active, nLoops,
                   last_dispensed_medications, cycleTime, cycles, servo_threads,
                   apiCalls, lastOp>>

\* the body of the for loop up to time.sleep(2)
CheckSchedule(r) ==
    /\ pc[r] = "scan"
    /\ idx[r] <= Len(Cursor)
    /\ LET med == Cursor[idx[r]]
           due == /\ ~InCooldown(med.id, cycleTime[r])
                  /\ should_dispense_medication(med, now)
                  /\ current_time_matches(med, cycleTime[r]) # <<>>
       IN  IF due
           THEN /\ use_stepper' = [use_stepper EXCEPT
                       ![r] = is_am_time(Head(current_time_matches(med, cycleTime[r])))]
                /\ events' = Append(events, Ev("audio", "time_to_take", med.id, r))
                /\ pc' = [pc EXCEPT ![r] = "pause"]
                /\ wake' = [wake EXCEPT ![r] = now + ALERT_PAUSE]
                /\ idx' = idx
           ELSE /\ idx' = [idx EXCEPT ![r] = @ + 1]
                /\ UNCHANGED <<use_stepper, events, pc, wake>>
    /\ UNCHANGED <<now, envVars, medication_monitoring_active, nLoops,
                   last_dispensed_medications, cycleTime, cycles, servo_threads,
                   apiCalls, lastOp>>

\* what mqtt_client.publish may do: hand the message to the broker connection,
\* raise (a payload or topic it refuses), or return an error code without raising
\* (the client is not connected); its callers do not look at what it returns
PublishOutcomes == {"sent"} \cup (faults \cap {"raises", "unsent"})

\* the event of a publish call with outcome o
Published(o, what, arg, id, r) ==
    Ev(IF o = "sent" THEN what ELSE IF o = "unsent" THEN what \o "_unsent"
       ELSE what \o "_raised", arg, id, r)

dispense_pill_automatically_Uncaught(r) ==
    /\ pc[r] = "pause"
    /\ now >= wake[r]
    /\ \E o \in PublishOutcomes :
        LET med == Cursor[idx[r]]
            what == IF use_stepper[r] THEN "stepper" ELSE "servo"
            arg == IF use_stepper[r] THEN STEPPER_STEPS ELSE SERVO_OPEN
        IN  IF o = "raises"
            THEN /\ events' = Append(events, Published(o, what, arg, med.id, r))
                 /\ idx' = [idx EXCEPT ![r] = Len(Cursor) + 1]
                 /\ UNCHANGED <<servo_threads, last_dispensed_medications>>
            ELSE /\ events' = events \o <<Published(o, what, arg, med.id, r),
                                          Ev("audio", "dispensing", med.id, r)>>
                 /\ servo_threads' =
                        IF use_stepper[r] THEN servo_threads
                        ELSE Append(servo_threads,
                                    [wake |-> now + SERVO_DELAY, med |-> med.id])
                 /\ last_dispensed_medications' =
                        [last_dispensed_medications EXCEPT ![med.id] = now]
                 /\ idx' = [idx EXCEPT ![r] = @ + 1]
    /\ pc' = [pc EXCEPT ![r] = "scan"]
    /\ UNCHANGED <<now, envVars, medication_monitoring_active, nLoops,
                   cycleTime, wake, use_stepper, cycles, apiCalls, lastOp>>

\* dispense_pill_automatically, called when time.sleep(2) is over.  A publish that
\* raises ends it with False: through the outer except, which asks for the error
\* sound, for the stepper, through the servo's own except for the servo.
dispense_pill_automatically(r) ==
    /\ pc[r] = "pause"
    /\ now >= wake[r]
    /\ \E o \in PublishOutcomes :
        LET med == Cursor[idx[r]]
            what == IF use_stepper[r] THEN "stepper" ELSE "servo"
            arg == IF use_stepper[r] THEN STEPPER_STEPS ELSE SERVO_OPEN
        IN  IF o = "raises"
            THEN /\ events' = events \o <<Published(o, what, arg, med.id, r)>>
                                     \o (IF use_stepper[r]
                                         THEN <<Ev("audio", "error", med.id, r)>> ELSE <<>>)
                                     \o <<Ev("returned", "False", med.id, r)>>
                 /\ UNCHANGED <<servo_threads, last_dispensed_medications>>
            ELSE /\ events' = events \o <<Published(o, what, arg, med.id, r),
                                          Ev("audio", "dispensing", med.id, r)>>
                 /\ servo_threads' =
                        IF use_stepper[r] THEN servo_threads
                        ELSE Append(servo_threads,
                                    [wake |-> now + SERVO_DELAY, med |-> med.id])
                 /\ last_dispensed_medications' =
                        [last_dispensed_medications EXCEPT ![med.id] = now]
    /\ pc' = [pc EXCEPT ![r] = "scan"]
    /\ idx' = [idx EXCEPT ![r] = @ + 1]
    /\ UNCHANGED <<now, envVars, medication_monitoring_active, nLoops,
                   cycleTime, wake, use_stepper, cycles, apiCalls, lastOp>>

\* the cursor is exhausted: the loop goes to time.sleep(60), a request returns
CycleEnd(r) ==
    /\ pc[r] = "scan"
    /\ idx[r] > Len(Cursor)
    /\ IF r \in Loops
       THEN \E j \in 0..jitterCap :
                /\ pc' = [pc EXCEPT ![r] = "sleep"]
                /\ wake' = [wake EXCEPT ![r] = now + POLL_SLEEP + j]
       ELSE /\ pc' = [pc EXCEPT ![r] = "done"]
            /\ wake' = wake
    /\ UNCHANGED <<now, envVars, medication_monitoring_active, nLoops,
                   last_dispensed_medications, idx, cycleTime, use_stepper, cycles,
                   servo_threads, events, apiCalls, lastOp>>

return_servo_to_close_NoDelay(k) ==
    /\ k \in 1..Len(servo_threads)
    /\ events' = events \o <<Ev("servo", SERVO_CLOSE, servo_threads[k].med, 0),
                             Ev("audio", "complete", servo_threads[k].med, 0)>>
    /\ servo_threads' = [i \in 1..(Len(servo_threads) - 1) |->
                            IF i < k THEN servo_threads[i] ELSE servo_threads[i + 1]]
    /\ UNCHANGED <<now, envVars, medication_monitoring_active, nLoops,
                   last_dispensed_medications, pc, idx, cycleTime, wake, use_stepper,
                   cycles, apiCalls, lastOp>>

\* return_servo_to_close, when its time.sleep(3) is over
return_servo_to_close(k) ==
    /\ k \in 1..Len(servo_threads)
    /\ now >= servo_threads[k].wake
    /\ \E o \in PublishOutcomes :
           events' = events \o <<Published(o, "servo", SERVO_CLOSE, servo_threads[k].med, 0)>>
                            \o (IF o = "raises" THEN <<>>
                                ELSE <<Ev("audio", "complete", servo_threads[k].med, 0)>>)
    /\ servo_threads' = [i \in 1..(Len(servo_threads) - 1) |->
                            IF i < k THEN servo_threads[i] ELSE servo_threads[i + 1]]
    /\ UNCHANGED <<now, envVars, medication_monitoring_active, nLoops,
                   last_dispensed_medications, pc, idx, cycleTime, wake, use_stepper,
                   cycles, apiCalls, lastOp>>

(***************************************************************************)
(* The clock: it moves to the next wake-up once no thread can run now      *)
(***************************************************************************)
Sleeping(r) == pc[r] \in {"pause", "sleep"}

Runnable(r) ==
    \/ pc[r] = "scan"
    \/ pc[r] = "test" /\ (~medication_monitoring_active \/ cycles[r] < cycleCap)
    \/ Sleeping(r) /\ wake[r] <= now

WakeTimes == {wake[r] : r \in {x \in Runners : Sleeping(x)}}
                 \cup {servo_threads[k].wake : k \in 1..Len(servo_threads)}

Tick ==
    /\ \A r \in Runners : ~Runnable(r)
    /\ WakeTimes # {}
    /\ \A w \in WakeTimes : w > now
    /\ now' = CHOOSE w \in WakeTimes : \A v \in WakeTimes : w <= v
    /\ UNCHANGED <<envVars, medication_monitoring_active, nLoops,
                   last_dispensed_medications, pc, idx, cycleTime, wake, use_stepper,
                   cycles, servo_threads, events, apiCalls, lastOp>>

(***************************************************************************)
(* Specifications                                                          *)
(***************************************************************************)
ThreadStep(r) ==
    \/ r \in Loops /\ LoopTest(r)
    \/ r \in Loops /\ LoopWake(r)
    \/ CheckSchedule(r)
    \/ dispense_pill_automatically(r)
    \/ CycleEnd(r)

ServoStep == \E k \in 1..(2 * (MaxLoops + MaxManual)) : return_servo_to_close(k)

RunnerStep ==
    \/ \E l \in Loops : LoopTest(l)
    \/ \E l \in Loops : LoopWake(l)
    \/ \E r \in Runners : CheckSchedule(r)
    \/ \E r \in Runners : dispense_pill_automatically(r)
    \/ \E r \in Runners : CycleEnd(r)
    \/ ServoStep

Next ==
    \/ start_medication_monitoring
    \/ stop_medication_monitoring
    \/ \E m \in Manuals : check_medications_now(m)
    \/ RunnerStep
    \/ Tick

\* the server: start/stop requests, check-now requests and the monitor loops
Spec == Init /\ [][Next]_vars

\* the monitor loop alone, as started by the main program: cycles one after another
StartedSeq ==
    /\ now \in StartTimes
    /\ t0 = now
    /\ meds \in ScheduleLists
    /\ cycleCap = MaxCycles
    /\ jitterCap = MaxJitter
    /\ medication_monitoring_active = TRUE
    /\ nLoops = 1
    /\ last_dispensed_medications = [i \in MedIds |-> NoRecord]
    /\ pc = [r \in Runners |-> IF r = 1 THEN "test" ELSE "idle"]
    /\ idx = [r \in Runners |-> 0]
    /\ cycleTime = [r \in Runners |-> 0]
    /\ wake = [r \in Runners |-> 0]
    /\ use_stepper = [r \in Runners |-> TRUE]
    /\ cycles = [r \in Runners |-> 0]
    /\ servo_threads = <<>>
    /\ events = <<>>
    /\ apiCalls = 0
    /\ lastOp = "started"
    /\ InitAlert /\ InitRace /\ InitMatch /\ InitAudio /\ InitBroker /\ NoFaults

NextSeq == RunnerStep \/ Tick

SeqSpec == StartedSeq /\ [][NextSeq]_vars

(***************************************************************************)
(* What the transport saw                                                  *)
(***************************************************************************)
IsDispense(e) == e.kind = "stepper" \/ (e.kind = "servo" /\ e.what = SERVO_OPEN)

DispenseIdx(id) == {i \in 1..Len(events) : IsDispense(events[i]) /\ events[i].med = id}

StepperIdx(id) == {i \in 1..Len(events) : events[i].kind = "stepper" /\ events[i].med = id}

(***************************************************************************)
(* C1: in cycles run one after another, any two dispenses of one schedule  *)
(* are at least DISPENSE_COOLDOWN apart, and a schedule on its way to a    *)
(* dispense was not within the cooldown at the cycle's clock instant,      *)
(* however many of its times match.                                        *)
(***************************************************************************)
C1_CooldownBetweenDispenses ==
    /\ \A id \in MedIds : \A i, j \in DispenseIdx(id) :
           i < j => events[j].t - events[i].t >= DISPENSE_COOLDOWN
    /\ \A r \in Runners : pc[r] = "pause" =>
           LET last == last_dispensed_medications[Cursor[idx[r]].id]
           IN  last = NoRecord \/ cycleTime[r] - last >= DISPENSE_COOLDOWN

\* the schedule with two matching times was dispensed twice, and its second
\* time matched in a cycle that skipped it
C1_Witness ==
    /\ Cardinality(DispenseIdx(MedTwice.id)) = 2
    /\ \E r \in Loops :
           /\ pc[r] = "scan" /\ idx[r] <= Len(Cursor) /\ Cursor[idx[r]] = MedTwice
           /\ Len(current_time_matches(MedTwice, cycleTime[r])) = 2
           /\ cycleTime[r] - last_dispensed_medications[MedTwice.id] < DISPENSE_COOLDOWN

(***************************************************************************)
(* C2: the daily schedule "08:00 AM", polled for ten cycles from 08:00:00, *)
(* is dispensed by the stepper exactly once.                               *)
(***************************************************************************)
C2_ExactlyOneDispenseInTenCycles ==
    (/\ meds = <<MedMorning>>
     /\ t0 = At(0, 8, 0, 0)
     /\ cycles[1] = MaxCycles
     /\ pc[1] = "sleep")
    => /\ Cardinality(StepperIdx(MedMorning.id)) = 1
       /\ Cardinality(DispenseIdx(MedMorning.id)) = 1

(***************************************************************************)
(* C3: when the monitor loop and a check-now request run                   *)
(* check_medication_schedules concurrently, their dispense cycles for one  *)
(* schedule never overlap and the two never dispense the same schedule     *)
(* within DISPENSE_COOLDOWN of each other.                                 *)
(***************************************************************************)
C3_NoConcurrentDoubleDispense ==
    /\ \A l \in Loops : \A m \in Manuals :
           ~(pc[l] = "pause" /\ pc[m] = "pause" /\ Cursor[idx[l]].id = Cursor[idx[m]].id)
    /\ \A id \in MedIds : \A i, j \in DispenseIdx(id) :
           (i < j /\ (events[i].by \in Manuals) # (events[j].by \in Manuals))
               => events[j].t - events[i].t >= DISPENSE_COOLDOWN

(***************************************************************************)
(* C7: at most one medication_monitor_loop thread is running poll cycles   *)
(* (inside a cycle or in the sleep between two cycles).                    *)
(***************************************************************************)
Polling(l) == pc[l] \in {"scan", "pause", "sleep"}

C7_AtMostOneMonitorLoop == Cardinality({l \in Loops : Polling(l)}) <= 1

(***************************************************************************)
(* C8: start while Running and stop while Idle change nothing of the       *)
(* scheduler; the flag only goes Idle -> Running in a start and            *)
(* Running -> Idle in a stop, and a thread is created only by a start      *)
(* that found the scheduler Idle.                                          *)
(***************************************************************************)
IsStartCall == apiCalls' # apiCalls /\ lastOp' \in {"started", "already_active"}

IsStopCall == apiCalls' # apiCalls /\ lastOp' \in {"stopped", "not_active"}

C8_StartStopIdempotent ==
    [][ /\ (IsStartCall /\ medication_monitoring_active) =>
               /\ medication_monitoring_active'
               /\ nLoops' = nLoops /\ pc' = pc /\ lastOp' = "already_active"
        /\ (IsStopCall /\ ~medication_monitoring_active) =>
               /\ ~medication_monitoring_active'
               /\ nLoops' = nLoops /\ pc' = pc /\ lastOp' = "not_active"
        /\ (medication_monitoring_active' # medication_monitoring_active) =>
               \/ IsStartCall /\ medication_monitoring_active'
               \/ IsStopCall /\ ~medication_monitoring_active'
        /\ (nLoops' # nLoops) =>
               /\ IsStartCall /\ ~medication_monitoring_active
               /\ nLoops' = nLoops + 1
      ]_vars

\* a start was answered "already active" after a stop was answered "not active"
C8_Witness ==
    /\ lastOp = "already_active"
    /\ medication_monitoring_active
    /\ nLoops = 1
    /\ apiCalls = 3

(***************************************************************************)
(* C9: once stopped, and for as long as start is not called again, the     *)
(* cycle in flight is not cut short, no loop begins a further cycle, and   *)
(* every monitor loop terminates.                                          *)
(***************************************************************************)
\* start/stop requests and the monitor loops they create; every thread that can
\* run is scheduled, and time passes
LiveStartTimes == { At(0, 8, 0, 0) }

LiveScheduleLists == { <<MedMorning>>, <<MedMorning, MedTwice>> }

InitLive ==
    /\ InitSched(LiveStartTimes, LiveScheduleLists, MaxConcCycles, 0)
    /\ InitAlert /\ InitRace /\ InitMatch /\ InitAudio /\ InitBroker /\ NoFaults

NextLive ==
    \/ start_medication_monitoring
    \/ stop_medication_monitoring
    \/ \E l \in Loops : ThreadStep(l)
    \/ Tick

Fairness ==
    /\ \A l \in Loops : WF_vars(ThreadStep(l))
    /\ WF_vars(Tick)

FairSpec == InitLive /\ [][NextLive]_vars /\ Fairness

C9_CleanStop ==
    /\ [][ \A l \in Loops :
              /\ (~medication_monitoring_active /\ ~medication_monitoring_active')
                     => cycles'[l] = cycles[l]
              /\ pc[l] \in {"scan", "pause"} => pc'[l] \in {"scan", "pause", "sleep"}
         ]_vars
    /\ \A l \in Loops :
           (~medication_monitoring_active /\ pc[l] \in {"scan", "pause"})
               ~> (medication_monitoring_active \/ pc[l] = "sleep")
    /\ (~medication_monitoring_active)
           ~> (medication_monitoring_active \/ \A l \in Loops : pc[l] \in {"idle", "done"})

\* a loop stopped in the middle of a cycle has finished it and has ended
C9_Witness ==
    /\ ~medication_monitoring_active
    /\ lastOp = "stopped"
    /\ pc[1] = "done"
    /\ cycles[1] = 1
    /\ DispenseIdx(MedMorning.id) # {}

(***************************************************************************)
(* The audio alert throttle and the alert evaluator                        *)
(***************************************************************************)
\* should_play_audio_alert at the instant t its time.time() returns:
\* the answer and the last_audio_alerts it leaves
should_play_audio_alert_NoRecord(alerts, a, t) ==
    [ok |-> t - alerts[a] >= AUDIO_COOLDOWN, alerts |-> alerts]

should_play_audio_alert_Strict(alerts, a, t) ==
    LET ok == t - alerts[a] > AUDIO_COOLDOWN
    IN  [ok |-> ok, alerts |-> IF ok THEN [alerts EXCEPT ![a] = t] ELSE alerts]

should_play_audio_alert(alerts, a, t) ==
    LET ok == t - alerts[a] >= AUDIO_COOLDOWN
    IN  [ok |-> ok, alerts |-> IF ok THEN [alerts EXCEPT ![a] = t] ELSE alerts]

\* check_and_play_audio_alerts('temp', value): the alert class whose threshold the
\* value meets and the audio key of its branch; cls = "none" when no branch applies
TempBranch(value) ==
    IF value >= TEMP_HIGH THEN [cls |-> "high_temp", key |-> "high_temp"]
    ELSE IF value <= TEMP_LOW THEN [cls |-> "low_temp", key |-> "temp_measure"]
    ELSE [cls |-> "none", key |-> "none"]

\* readings of the temperature channel, in tenths of a degree
TempReadings == {340, 380, 381, 382}

\* the class on_connect consults, outside the alert evaluator
DirectClasses == {"mqtt_connected"}

AlertStartTimes == { At(0, 8, 0, 0) }

\* seconds the clock may move between two messages
AlertSteps == {1, 29}

Call(a, ok, src, v) == [cls |-> a, t |-> now, ok |-> ok, src |-> src, v |-> v]

\* on_message on the temperature channel with a well-formed payload: store the
\* reading, then check_and_play_audio_alerts('temp', value)
OnTemperature(value) ==
    /\ Len(alog) < MaxAlertCalls
    /\ sensor_data' = [sensor_data EXCEPT !["temp"] = Value(value, now)]
    /\ UNCHANGED <<nmsg, last_msg>>
    /\ LET b == TempBranch(value)
           r == should_play_audio_alert(last_audio_alerts, b.cls, now)
       IN  IF b.cls = "none"
           THEN UNCHANGED <<last_audio_alerts, alog, areqs>>
           ELSE /\ last_audio_alerts' = r.alerts
                /\ alog' = Append(alog, Call(b.cls, r.ok, "temp", value))
                /\ areqs' = IF r.ok
                            THEN Append(areqs, [key |-> b.key, cls |-> b.cls, t |-> now])
                            ELSE areqs
    /\ UNCHANGED <<now, t0, meds, cycleCap, jitterCap, faults, brokerVars, audioVars, aticks, raceVars, matchVars, schedVars>>

\* if should_play_audio_alert(a): play_audio_threaded(...)   (on_connect, main)
DirectAlert(a) ==
    /\ Len(alog) < MaxAlertCalls
    /\ LET r == should_play_audio_alert(last_audio_alerts, a, now)
       IN  /\ last_audio_alerts' = r.alerts
           /\ alog' = Append(alog, Call(a, r.ok, "direct", 0))
           /\ areqs' = IF r.ok THEN Append(areqs, [key |-> a, cls |-> a, t |-> now]) ELSE areqs
    /\ UNCHANGED <<now, t0, meds, cycleCap, jitterCap, faults, brokerVars, audioVars, storeVars, aticks, raceVars,
                   matchVars, schedVars>>

AlertTick ==
    /\ aticks < MaxAlertTicks
    /\ aticks' = aticks + 1
    /\ \E d \in AlertSteps : now' = now + d
    /\ UNCHANGED <<t0, meds, cycleCap, jitterCap, faults, brokerVars, audioVars, last_audio_alerts, storeVars, alog, areqs,
                   raceVars, matchVars, schedVars>>

InitIdleSched == InitSched(AlertStartTimes, { <<MedMorning>> }, 0, 0)

InitAlertSpec == InitIdleSched /\ InitAlert /\ InitRace /\ InitMatch /\ InitAudio /\ InitBroker /\ NoFaults

NextAlert ==
    \/ \E v \in TempReadings : OnTemperature(v)
    \/ \E a \in DirectClasses : DirectAlert(a)
    \/ AlertTick

\* the ingestion path: messages and alert checks handled one at a time
AlertSpec == InitAlertSpec /\ [][NextAlert]_vars

(***************************************************************************)
(* C4: any two approvals of one alert class are at least AUDIO_COOLDOWN    *)
(* apart; of the calls for a class that come less than AUDIO_COOLDOWN      *)
(* after its first call, the first alone is approved; and the alert        *)
(* evaluator requests audio once per approval, so readings of 38.0, 38.1   *)
(* and 38.2 within the cooldown request the high-temperature audio once.   *)
(***************************************************************************)
CallsOf(a) == {i \in 1..Len(alog) : alog[i].cls = a}

FirstCallOf(a) == CHOOSE i \in CallsOf(a) : \A j \in CallsOf(a) : i <= j

RequestsOf(a) == {i \in 1..Len(areqs) : areqs[i].cls = a}

C4_OneApprovalPerCooldown ==
    \A a \in AlertClasses :
        /\ \A i, j \in CallsOf(a) :
               (i < j /\ alog[i].ok /\ alog[j].ok) => alog[j].t - alog[i].t >= AUDIO_COOLDOWN
        /\ CallsOf(a) # {} =>
               /\ alog[FirstCallOf(a)].ok
               /\ \A j \in CallsOf(a) :
                      (j # FirstCallOf(a) /\ alog[j].t - alog[FirstCallOf(a)].t < AUDIO_COOLDOWN)
                          => ~alog[j].ok
        /\ Cardinality(RequestsOf(a)) = Cardinality({i \in CallsOf(a) : alog[i].ok})
        /\ \A i, j \in RequestsOf(a) : i < j => areqs[j].t - areqs[i].t >= AUDIO_COOLDOWN

\* 38.0, 38.1 and 38.2 were handled within ten seconds: one audio request
C4_Witness ==
    /\ Len(alog) = 3
    /\ alog[1].v = 380 /\ alog[2].v = 381 /\ alog[3].v = 382
    /\ alog[3].t - alog[1].t <= 10
    /\ alog[3].t > alog[1].t
    /\ Cardinality(RequestsOf("high_temp")) = 1
    /\ sensor_data["temp"] = Value(382, now)

(***************************************************************************)
(* C6: a throttle call for class a at time now is approved exactly when    *)
(* now - lastFiredAt[a] >= AUDIO_COOLDOWN; approved, it sets               *)
(* lastFiredAt[a] to now; refused, it changes nothing; every other class   *)
(* keeps its lastFiredAt.                                                  *)
(***************************************************************************)
C6_ThrottleEffect ==
    [][ Len(alog') = Len(alog) + 1 =>
          LET c == alog'[Len(alog')]
          IN  /\ c.t = now
              /\ c.ok <=> (now - last_audio_alerts[c.cls] >= AUDIO_COOLDOWN)
              /\ c.ok => last_audio_alerts'[c.cls] = now
              /\ ~c.ok => last_audio_alerts'[c.cls] = last_audio_alerts[c.cls]
              /\ \A b \in AlertClasses \ {c.cls} :
                     last_audio_alerts'[b] = last_audio_alerts[b]
      ]_vars

\* a class was approved again exactly AUDIO_COOLDOWN after its last approval, and
\* the approval of another class in between kept its own time
C6_Witness ==
    /\ Len(alog) = 3
    /\ alog[1].cls = alog[3].cls /\ alog[1].ok /\ alog[3].ok
    /\ alog[3].t - alog[1].t = AUDIO_COOLDOWN
    /\ alog[2].cls # alog[1].cls /\ alog[2].ok
    /\ last_audio_alerts[alog[2].cls] = alog[2].t
    /\ last_audio_alerts[alog[1].cls] = alog[3].t

(***************************************************************************)
(* should_play_audio_alert statement by statement, called by two threads   *)
(***************************************************************************)
RaceClasses == {"high_temp", "motion"}

\* current_time = time.time()
ThrottleEnter(t, a) ==
    /\ tpc[t] = "idle"
    /\ tpc' = [tpc EXCEPT ![t] = "test"]
    /\ tcls' = [tcls EXCEPT ![t] = a]
    /\ tcur' = [tcur EXCEPT ![t] = now]
    /\ UNCHANGED <<now, t0, meds, cycleCap, jitterCap, faults, brokerVars, audioVars, alertVars, tret, matchVars, schedVars>>

\* if current_time - last_audio_alerts.get(alert_type, 0) >= AUDIO_COOLDOWN
ThrottleTest(t) ==
    /\ tpc[t] = "test"
    /\ IF tcur[t] - last_audio_alerts[tcls[t]] >= AUDIO_COOLDOWN
       THEN /\ tpc' = [tpc EXCEPT ![t] = "write"]
            /\ tret' = tret
       ELSE /\ tpc' = [tpc EXCEPT ![t] = "done"]
            /\ tret' = [tret EXCEPT ![t] = FALSE]
    /\ UNCHANGED <<now, t0, meds, cycleCap, jitterCap, faults, brokerVars, audioVars, alertVars, tcls, tcur, matchVars,
                   schedVars>>

\* last_audio_alerts[alert_type] = current_time; return True
ThrottleWrite(t) ==
    /\ tpc[t] = "write"
    /\ last_audio_alerts' = [last_audio_alerts EXCEPT ![tcls[t]] = tcur[t]]
    /\ tpc' = [tpc EXCEPT ![t] = "done"]
    /\ tret' = [tret EXCEPT ![t] = TRUE]
    /\ UNCHANGED <<now, t0, meds, cycleCap, jitterCap, faults, brokerVars, audioVars, storeVars, alog, areqs, aticks,
                   tcls, tcur, matchVars, schedVars>>

RaceTick ==
    /\ aticks < MaxRaceTicks
    /\ aticks' = aticks + 1
    /\ now' = now + 1
    /\ UNCHANGED <<t0, meds, cycleCap, jitterCap, faults, brokerVars, audioVars, last_audio_alerts, storeVars, alog, areqs,
                   raceVars, matchVars, schedVars>>

NextRace ==
    \/ \E t \in Threads : \E a \in RaceClasses : ThrottleEnter(t, a)
    \/ \E t \in Threads : ThrottleTest(t)
    \/ \E t \in Threads : ThrottleWrite(t)
    \/ RaceTick

RaceSpec == InitAlertSpec /\ [][NextRace]_vars

(***************************************************************************)
(* C5: two concurrent throttle calls for one alert class, less than        *)
(* AUDIO_COOLDOWN apart, are not both approved.                            *)
(***************************************************************************)
C5_AtMostOneConcurrentApproval ==
    \A t, u \in Threads :
        (/\ t # u
         /\ tpc[t] = "done" /\ tpc[u] = "done"
         /\ tcls[t] = tcls[u]
         /\ Abs(tcur[t] - tcur[u]) < AUDIO_COOLDOWN)
        => ~(tret[t] /\ tret[u])

(***************************************************************************)
(* time_matches_schedule on one schedule time and one current time         *)
(***************************************************************************)
SchedMinutes == {0, 2, 30, 58}

SchedStrings ==
    {T(h, m, ap) : h \in 1..12, m \in SchedMinutes, ap \in {"AM", "PM"}}
        \cup {T(h, m, "24H") : h \in {0, 13, 23}, m \in SchedMinutes}

InitMatchSpec ==
    /\ InitIdleSched /\ InitAlert /\ InitRace /\ InitAudio /\ InitBroker /\ NoFaults
    /\ m_sched \in SchedStrings
    /\ m_hour \in 0..23
    /\ m_minute \in 0..59
    /\ m_result = FALSE
    /\ m_done = FALSE

Evaluate ==
    /\ ~m_done
    /\ m_done' = TRUE
    /\ m_result' = time_matches_schedule(m_sched, At(0, m_hour, m_minute, 0))
    /\ UNCHANGED <<now, t0, meds, cycleCap, jitterCap, faults, brokerVars, audioVars, alertVars, raceVars, m_sched, m_hour,
                   m_minute, schedVars>>

MatchSpec == InitMatchSpec /\ [][Evaluate]_vars

(***************************************************************************)
(* C10: time_matches_schedule answers true exactly when the circular       *)
(* distance, on a day of 1440 minutes, between the schedule time           *)
(* (12:xx AM read as 00:xx, 12:xx PM as 12:xx) and the current time is at  *)
(* most the tolerance; "11:58 PM" matches 00:02 and "06:00 AM" does not    *)
(* match 18:00.                                                            *)
(***************************************************************************)
MinuteOfDay24(ts) ==
    (IF ts.ap = "24H" THEN ts.h ELSE (ts.h % 12) + (IF ts.ap = "PM" THEN 12 ELSE 0)) * 60 + ts.m

CircularDistance(a, b) ==
    LET d == (a - b) % MinutesPerDay
    IN  IF d <= MinutesPerDay - d THEN d ELSE MinutesPerDay - d

C10_MatchIsCircularDistance ==
    m_done =>
        /\ m_result <=>
               (CircularDistance(MinuteOfDay24(m_sched), m_hour * 60 + m_minute)
                    <= TOLERANCE_MINUTES)
        /\ (m_sched = T(11, 58, "PM") /\ m_hour = 0 /\ m_minute = 2) => m_result
        /\ (m_sched = T(6, 0, "AM") /\ m_hour = 18 /\ m_minute = 0) => ~m_result

\* "11:58 PM" was found to match 00:02
C10_Witness ==
    /\ m_done
    /\ m_sched = T(11, 58, "PM") /\ m_hour = 0 /\ m_minute = 2
    /\ m_result

(***************************************************************************)
(* Which schedules are due, and which actuator serves them: the monitor    *)
(* loop alone over schedules with morning, evening, paired and weekday     *)
(* times                                                                   *)
(***************************************************************************)
MaxDueCycles == 2

MedAm == Med(1, "daily", {}, <<T(7, 30, "AM")>>)
MedPm == Med(2, "daily", {}, <<T(7, 30, "PM")>>)
MedBoth == Med(1, "daily", {}, <<T(7, 30, "AM"), T(7, 30, "PM")>>)
MedNoon == Med(2, "daily", {}, <<T(12, 2, "PM"), T(11, 58, "AM")>>)
MedNoonSorted == Med(2, "daily", {}, <<T(11, 58, "AM"), T(12, 2, "PM")>>)
MedDawn == Med(1, "daily", {}, <<T(5, 58, "AM"), T(6, 2, "AM")>>)
MedMidnight == Med(2, "daily", {}, <<T(12, 1, "AM"), T(19, 30, "24H")>>)
MedMondays == Med(3, "specific_days", {0}, <<T(11, 58, "PM")>>)
MedWeekend == Med(3, "specific_days", {5, 6}, <<T(7, 30, "AM"), T(12, 0, "PM")>>)
MedSupper == Med(1, "daily", {}, <<T(7, 30, "PM")>>)
MedLate == Med(1, "daily", {}, <<T(8, 5, "AM")>>)
MedEarly == Med(2, "daily", {}, <<T(8, 0, "AM")>>)

DueScheduleLists ==
    { <<MedAm>>, <<MedPm>>, <<MedBoth>>, <<MedNoon>>, <<MedNoonSorted>>, <<MedDawn>>,
      <<MedMidnight>>, <<MedMondays>>, <<MedWeekend, MedAm>>, <<MedMondays, MedMidnight>>,
      <<MedSupper, MedPm>>, <<MedLate, MedEarly>> }

DueStartTimes ==
    { At(0, 7, 30, 0), At(0, 19, 30, 0), At(0, 12, 0, 0), At(0, 6, 0, 0),
      At(0, 23, 58, 0), At(1, 0, 1, 0), At(5, 7, 30, 0), At(0, 8, 5, 58) }

\* the monitor loop as started by the main program
StartedDue ==
    /\ now \in DueStartTimes
    /\ t0 = now
    /\ meds \in DueScheduleLists
    /\ cycleCap = MaxDueCycles
    /\ jitterCap = 0
    /\ medication_monitoring_active = TRUE
    /\ nLoops = 1
    /\ last_dispensed_medications = [i \in MedIds |-> NoRecord]
    /\ pc = [r \in Runners |-> IF r = 1 THEN "test" ELSE "idle"]
    /\ idx = [r \in Runners |-> 0]
    /\ cycleTime = [r \in Runners |-> 0]
    /\ wake = [r \in Runners |-> 0]
    /\ use_stepper = [r \in Runners |-> TRUE]
    /\ cycles = [r \in Runners |-> 0]
    /\ servo_threads = <<>>
    /\ events = <<>>
    /\ apiCalls = 0
    /\ lastOp = "started"
    /\ InitAlert /\ InitRace /\ InitMatch /\ InitAudio /\ InitBroker /\ NoFaults

NextDue == RunnerStep \/ Tick

DueSpec == StartedDue /\ [][NextDue]_vars

\* the hour 0..23 a schedule time string names
ClockHour(ts) == MinuteOfDay24(ts) \div 60

MinuteOfDayAt(t) == HourOf(t) * 60 + MinuteOf(t)

\* the schedule a runner is working on
CurrentMed(r) == Cursor[idx[r]]

(***************************************************************************)
(* C11: the actuator of a dispense is the stepper exactly when the         *)
(* selected matching time has hour 06..11, the servo for every other       *)
(* hour: a step that selects the actuator sets use_stepper by that hour,   *)
(* and the dispense that follows publishes to the actuator selected.       *)
(***************************************************************************)
C11_ActuatorByHour ==
    [][\A r \in Runners :
          /\ (pc[r] = "scan" /\ pc'[r] = "pause") =>
                 LET first_match_time ==
                         Head(current_time_matches(CurrentMed(r), cycleTime[r]))
                 IN  /\ use_stepper'[r] = (ClockHour(first_match_time) \in 6..11)
                     /\ first_match_time = T(7, 30, "AM") => use_stepper'[r]
                     /\ first_match_time = T(7, 30, "PM") => ~use_stepper'[r]
          /\ (pc[r] = "pause" /\ pc'[r] = "scan") =>
                 /\ Len(events') = Len(events) + 2
                 /\ events'[Len(events) + 1].kind =
                        (IF use_stepper[r] THEN "stepper" ELSE "servo")
                 /\ IsDispense(events'[Len(events) + 1])]_vars

\* a time before 06:00 written with AM was selected and served by the servo
C11_Witness ==
    /\ meds = <<MedDawn>>
    /\ \E i \in 1..Len(events) : events[i].kind = "servo" /\ events[i].what = SERVO_OPEN
    /\ StepperIdx(MedDawn.id) = {}

\* the minute of day of the earliest of the times of med that match at t
EarliestMatchMinute(med, t) ==
    LET ms == current_time_matches(med, t)
        mins == {MinuteOfDay24(ms[k]) : k \in 1..Len(ms)}
    IN  CHOOSE m \in mins : \A n \in mins : m <= n

(***************************************************************************)
(* C12: when several times of a schedule match, the actuator is chosen by  *)
(* the earliest matching time of day, whatever the order of the list: a    *)
(* runner between selection and dispense holds the choice the earliest     *)
(* matching time gives.                                                    *)
(***************************************************************************)
C12_EarliestMatchSelects ==
    \A r \in Runners :
        pc[r] = "pause" =>
            use_stepper[r] = ((EarliestMatchMinute(CurrentMed(r), cycleTime[r]) \div 60) \in 6..11)

(***************************************************************************)
(* C13: a schedule with several times is due when any one of them          *)
(* matches, and one cycle issues one dispense for it however many of its   *)
(* times match: no cycle dispenses a schedule twice, and after a first     *)
(* cycle in which at least one time of the first schedule matched, that    *)
(* schedule was dispensed exactly once.                                    *)
(***************************************************************************)
C13_OneDispensePerDueSchedule ==
    /\ \A k \in 1..Len(Cursor) :
           Cursor[k].frequency = "daily" =>
               (should_dispense_medication(Cursor[k], now) <=>
                    \E j \in 1..Len(Cursor[k].times) :
                        CircularDistance(MinuteOfDay24(Cursor[k].times[j]), MinuteOfDayAt(now))
                            <= TOLERANCE_MINUTES)
    /\ \A id \in MedIds : \A r \in Runners :
           Cardinality({i \in DispenseIdx(id) :
                            events[i].by = r /\ events[i].t >= cycleTime[r]}) <= 1
    /\ (pc[1] = "sleep" /\ cycles[1] = 1 /\ Cursor[1].frequency = "daily"
            /\ current_time_matches(Cursor[1], cycleTime[1]) # <<>>)
           => Cardinality(DispenseIdx(Cursor[1].id)) = 1

\* two times of one schedule matched in the cycle and one dispense was issued
C13_Witness ==
    /\ pc[1] = "sleep" /\ cycles[1] = 1
    /\ Len(current_time_matches(Cursor[1], cycleTime[1])) = 2
    /\ Cardinality(DispenseIdx(Cursor[1].id)) = 1

BPM_HIGH == 1000
BPM_LOW == 600
BPM_NORMAL_FROM == 600
BPM_NORMAL_BELOW == 1000
ALCOHOL_DETECTED == 1
MOTION_THRESHOLD == 5

Branch(cls, key) == [cls |-> cls, key |-> key]

\* the branches of one sensor type whose comparison with the value holds, in the
\* order of the if / elif chain
Branches(sensor_type, value) ==
    IF sensor_type = "temp" THEN
        (IF value >= TEMP_HIGH THEN <<Branch("high_temp", "high_temp")>> ELSE <<>>)
        \o (IF value <= TEMP_LOW THEN <<Branch("low_temp", "temp_measure")>> ELSE <<>>)
    ELSE IF sensor_type = "bpm" THEN
        (IF value >= BPM_HIGH THEN <<Branch("high_bpm", "high_bpm")>> ELSE <<>>)
        \o (IF value > 0 /\ value <= BPM_LOW THEN <<Branch("low_bpm", "normal_bpm")>> ELSE <<>>)
        \o (IF value > 0 /\ BPM_NORMAL_FROM <= value /\ value < BPM_NORMAL_BELOW
            THEN <<Branch("normal_bpm", "normal_bpm")>> ELSE <<>>)
    ELSE IF sensor_type = "alcohol" THEN
        (IF value >= ALCOHOL_DETECTED THEN <<Branch("alcohol", "alcohol_detected")>> ELSE <<>>)
    ELSE IF sensor_type = "motion" THEN
        (IF value >= MOTION_THRESHOLD * MOTION_THRESHOLD
         THEN <<Branch("motion", "motion")>> ELSE <<>>)
    ELSE <<>>

RunBranches_PlayAnyway(alerts, bs, src, value) ==
    IF bs = <<>> THEN [alerts |-> alerts, calls |-> <<>>, reqs |-> <<>>]
    ELSE LET b == Head(bs)
             r == should_play_audio_alert(alerts, b.cls, now)
         IN  [alerts |-> r.alerts, calls |-> <<Call(b.cls, r.ok, src, value)>>,
              reqs |-> <<[key |-> b.key, cls |-> b.cls, t |-> now]>>]

\* `cond and should_play_audio_alert(cls)` down the chain: the throttle is asked for
\* each branch whose comparison holds until one approves, and that one plays
RECURSIVE RunBranches(_, _, _, _)
RunBranches(alerts, bs, src, value) ==
    IF bs = <<>> THEN [alerts |-> alerts, calls |-> <<>>, reqs |-> <<>>]
    ELSE LET b == Head(bs)
             r == should_play_audio_alert(alerts, b.cls, now)
             c == Call(b.cls, r.ok, src, value)
         IN  IF r.ok
             THEN [alerts |-> r.alerts, calls |-> <<c>>,
                   reqs |-> <<[key |-> b.key, cls |-> b.cls, t |-> now]>>]
             ELSE LET rest == RunBranches(r.alerts, Tail(bs), src, value)
                  IN  [alerts |-> rest.alerts, calls |-> <<c>> \o rest.calls,
                       reqs |-> rest.reqs]

check_and_play_audio_alerts(alerts, sensor_type, value) ==
    RunBranches(alerts, Branches(sensor_type, value), sensor_type, value)

(***************************************************************************)
(* Payloads, by what json.loads and float make of their text               *)
(***************************************************************************)
Num(v) == [form |-> "number", v |-> v, fields |-> <<>>]            \* "36.6"
FloatText(v) == [form |-> "float_text", v |-> v, fields |-> <<>>]  \* ".5": a float, not JSON
Quoted(v) == [form |-> "json_string", v |-> v, fields |-> <<>>]    \* "\"36.6\"": a JSON string
Text == [form |-> "text", v |-> 0, fields |-> <<>>]                \* "not-a-number"
Array == [form |-> "array", v |-> 0, fields |-> <<>>]              \* "[1, 2]"
Obj(fields) == [form |-> "object", v |-> 0, fields |-> fields]     \* "{...}"

json_loads_ok(p) == p.form \in {"number", "json_string", "object", "array"}

float_ok(p) == p.form \in {"number", "float_text"}

Has(fields, k) == \E i \in 1..Len(fields) : fields[i].k = k

Get(fields, k) == fields[CHOOSE i \in 1..Len(fields) : fields[i].k = k]

\* the values of a dict float() accepts, in the order of its keys
Castable(fields) == SelectSeq(fields, LAMBDA f : f.num)

(***************************************************************************)
(* on_message.  A parse ends in a value to store ("accept"), in nothing    *)
(* to do ("ignore"), or in an exception that the handler's outer except    *)
(* catches and prints ("error").                                           *)
(***************************************************************************)
Accept(v) == [act |-> "accept", v |-> v]
Ignore == [act |-> "ignore", v |-> 0]
Raise == [act |-> "error", v |-> 0]

\* float(d[k])
FloatOf(f) == IF f.num THEN Accept(f.v) ELSE Raise

temp_payload_value_TempKeyOnly(p) ==
    IF ~json_loads_ok(p) THEN (IF float_ok(p) THEN Accept(p.v) ELSE Raise)
    ELSE IF p.form = "object" THEN
        IF Has(p.fields, "temp") THEN FloatOf(Get(p.fields, "temp")) ELSE Ignore
    ELSE IF p.form \in {"number", "json_string"} THEN Accept(p.v)   \* float(temp_data)
    ELSE Raise

\* the temperature topic: JSON first, then the plain float
temp_payload_value(p) ==
    IF ~json_loads_ok(p) THEN (IF float_ok(p) THEN Accept(p.v) ELSE Raise)
    ELSE IF p.form = "object" THEN
        IF Has(p.fields, "temp") THEN FloatOf(Get(p.fields, "temp"))
        ELSE IF Has(p.fields, "temperature") THEN FloatOf(Get(p.fields, "temperature"))
        ELSE IF Castable(p.fields) # <<>> THEN Accept(Head(Castable(p.fields)).v)
        ELSE Ignore
    ELSE IF p.form \in {"number", "json_string"} THEN Accept(p.v)   \* float(temp_data)
    ELSE Raise

\* the alcohol topic: `'alcohol_level' in alcohol_data` is evaluated on whatever
\* json.loads returned, and raises TypeError on a number
alcohol_payload_value(p) ==
    IF ~json_loads_ok(p) THEN (IF float_ok(p) THEN Accept(p.v) ELSE Raise)
    ELSE IF p.form = "number" THEN Raise
    ELSE IF Has(p.fields, "alcohol_level") THEN FloatOf(Get(p.fields, "alcohol_level"))
    ELSE IF Has(p.fields, "alcohol") THEN FloatOf(Get(p.fields, "alcohol"))
    ELSE Raise                      \* float(payload) on the text of an object or array

\* float(payload)
plain_payload_value(p) == IF float_ok(p) THEN Accept(p.v) ELSE Raise

Outcome(sd, alerts, calls, reqs, error) ==
    [sensor_data |-> sd, alerts |-> alerts, calls |-> calls, reqs |-> reqs, error |-> error]

StoreAndCheck_WrongKey(sd, alerts, c, r, sensor_type) ==
    IF r.act = "accept"
    THEN LET e == check_and_play_audio_alerts(alerts, sensor_type, r.v)
         IN  Outcome([sd EXCEPT !["temp"] = Value(r.v, now)], e.alerts, e.calls, e.reqs, FALSE)
    ELSE Outcome(sd, alerts, <<>>, <<>>, r.act = "error")

\* sensor_data[c] = {'value': v, ...}, then the alert evaluator when the topic has one
StoreAndCheck(sd, alerts, c, r, sensor_type) ==
    IF r.act = "accept"
    THEN LET e == check_and_play_audio_alerts(alerts, sensor_type, r.v)
         IN  Outcome([sd EXCEPT ![c] = Value(r.v, now)], e.alerts, e.calls, e.reqs, FALSE)
    ELSE Outcome(sd, alerts, <<>>, <<>>, r.act = "error")

\* the gyroscope and accelerometer topics: the decoded object is stored, then the
\* magnitude is evaluated when x, y and z are all present
axes_message(sd, alerts, c, p) ==
    IF p.form # "object" THEN Outcome(sd, alerts, <<>>, <<>>, TRUE)
    ELSE LET stored == [sd EXCEPT ![c] = Reading(p.fields, now)]
         IN  IF Has(p.fields, "x") /\ Has(p.fields, "y") /\ Has(p.fields, "z")
             THEN LET x == Get(p.fields, "x")
                      y == Get(p.fields, "y")
                      z == Get(p.fields, "z")
                  IN  IF x.num /\ y.num /\ z.num
                      THEN LET e == check_and_play_audio_alerts(
                                        alerts, "motion", x.v * x.v + y.v * y.v + z.v * z.v)
                           IN  Outcome(stored, e.alerts, e.calls, e.reqs, FALSE)
                      ELSE Outcome(stored, alerts, <<>>, <<>>, TRUE)
             ELSE Outcome(stored, alerts, <<>>, <<>>, FALSE)

PlainChannels == {"distance", "weight_value", "gyro_y", "gyro_z", "load"}

on_message(sd, alerts, topic, p) ==
    IF topic \in AxisChannels THEN axes_message(sd, alerts, topic, p)
    ELSE IF topic = "temp" THEN StoreAndCheck(sd, alerts, "temp", temp_payload_value(p), "temp")
    ELSE IF topic \in PlainChannels
        THEN StoreAndCheck(sd, alerts, topic, plain_payload_value(p), "none")
    ELSE IF topic = "weight_status"
        THEN Outcome([sd EXCEPT !["weight_status"] =
                          Reading(<<IF float_ok(p) THEN F("status", p.v) ELSE NaF("status")>>, now)],
                     alerts, <<>>, <<>>, FALSE)
    ELSE IF topic = "bpm" THEN StoreAndCheck(sd, alerts, "bpm", plain_payload_value(p), "bpm")
    ELSE IF topic = "alcohol"
        THEN StoreAndCheck(sd, alerts, "alcohol", alcohol_payload_value(p), "alcohol")
    ELSE Outcome(sd, alerts, <<>>, <<>>, FALSE)

(***************************************************************************)
(* The ingestion path: the network thread hands messages to on_message     *)
(* one at a time                                                           *)
(***************************************************************************)
MaxMessages == 2
MaxIngestTicks == 1

Msg(topic, p) == [topic |-> topic, payload |-> p]

Messages ==
    { Msg("bpm", Num(599)), Msg("bpm", Num(600)), Msg("bpm", Num(999)), Msg("bpm", Num(1000)),
      Msg("bpm", Num(0)), Msg("bpm", Text),
      Msg("temp", Num(366)), Msg("temp", Num(380)), Msg("temp", Text),
      Msg("temp", Obj(<<F("temperature", 366)>>)),
      Msg("temp", Obj(<<F("temp", 380), F("temperature", 366)>>)),
      Msg("temp", Obj(<<NaF("unit"), F("reading", 340)>>)),
      Msg("temp", Obj(<<NaF("temp")>>)),
      Msg("alcohol", Num(5)), Msg("alcohol", FloatText(5)), Msg("alcohol", Text),
      Msg("alcohol", Obj(<<F("alcohol_level", 5)>>)), Msg("alcohol", Obj(<<F("alcohol", 5)>>)),
      Msg("alcohol", Obj(<<F("reading", 5)>>)),
      Msg("gyro", Obj(<<F("x", 3), F("y", 4), F("z", 0)>>)),
      Msg("gyro", Obj(<<F("x", 3), F("y", 4)>>)),
      Msg("gyro", Obj(<<NaF("x"), F("y", 4), F("z", 0)>>)),
      Msg("gyro", Text), Msg("gyro", Num(7)),
      Msg("accel", Obj(<<F("x", 1), F("y", 1), F("z", 1)>>)), Msg("accel", Obj(<<F("z", 9)>>)),
      Msg("distance", Num(120)), Msg("distance", Text),
      Msg("distance", Quoted(120)), Msg("bpm", Quoted(1000)), Msg("temp", Quoted(380)),
      Msg("weight_status", Text) }

IngestSteps == {1, 30}

\* one call of on_message
Deliver(m) ==
    /\ nmsg < MaxMessages
    /\ LET o == on_message(sensor_data, last_audio_alerts, m.topic, m.payload)
       IN  /\ sensor_data' = o.sensor_data
           /\ last_audio_alerts' = o.alerts
           /\ alog' = alog \o o.calls
           /\ areqs' = areqs \o o.reqs
           /\ last_msg' = [topic |-> m.topic, payload |-> m.payload, t |-> now,
                           before |-> sensor_data, alerts |-> last_audio_alerts,
                           calls |-> o.calls, reqs |-> o.reqs, error |-> o.error]
    /\ nmsg' = nmsg + 1
    /\ UNCHANGED <<now, t0, meds, cycleCap, jitterCap, faults, brokerVars, audioVars, aticks, raceVars, matchVars, schedVars>>

IngestTick ==
    /\ aticks < MaxIngestTicks
    /\ aticks' = aticks + 1
    /\ \E d \in IngestSteps : now' = now + d
    /\ UNCHANGED <<t0, meds, cycleCap, jitterCap, faults, brokerVars, audioVars, last_audio_alerts, storeVars, alog, areqs,
                   raceVars, matchVars, schedVars>>

NextIngest ==
    \/ \E m \in Messages : Deliver(m)
    \/ IngestTick

IngestSpec == InitAlertSpec /\ [][NextIngest]_vars

\* the heart-rate class a value belongs to
BpmClass(v) ==
    IF v >= 1000 THEN "high_bpm"
    ELSE IF v > 0 /\ v <= 600 THEN "low_bpm"
    ELSE IF v > 600 /\ v < 1000 THEN "normal_bpm"
    ELSE "none"

IsBpmReading == last_msg.topic = "bpm" /\ last_msg.payload.form = "number"

(***************************************************************************)
(* C15: a heart-rate reading requests audio only for the class of its      *)
(* value, in every state of the throttle: high from 100, low for           *)
(* 0 < v <= 60, normal for 60 < v < 100; and it does request that class    *)
(* when the class is out of its cooldown (100 gives high, 60 and 59.9      *)
(* give low, 99.9 gives normal).                                           *)
(***************************************************************************)
C15_BpmClassByValue ==
    IsBpmReading =>
        LET v == last_msg.payload.v
        IN  /\ \A i \in 1..Len(last_msg.reqs) : last_msg.reqs[i].cls = BpmClass(v)
            /\ (BpmClass(v) # "none"
                    /\ last_msg.t - last_msg.alerts[BpmClass(v)] >= AUDIO_COOLDOWN)
                   => /\ Len(last_msg.reqs) = 1
                      /\ last_msg.reqs[1].cls = BpmClass(v)

ApprovedCalls == SelectSeq(alog, LAMBDA c : c.ok)

Malformed(topic, p) ==
    IF topic \in PlainChannels \cup {"bpm"} THEN p.form \notin {"number", "float_text"}
    ELSE IF topic \in {"temp", "alcohol"}
        THEN \/ p.form \in {"text", "array"}
             \/ p.form = "object" /\ Castable(p.fields) = <<>>
    ELSE IF topic \in AxisChannels
        THEN \/ p.form # "object"
             \/ \E i \in 1..Len(p.fields) : p.fields[i].k \in {"x", "y", "z"} /\ ~p.fields[i].num
    ELSE FALSE

(***************************************************************************)
(* C17: a malformed payload on any channel leaves every stored reading as  *)
(* it was and triggers no throttle call and no audio request.              *)
(***************************************************************************)
C17_MalformedChangesNothing ==
    (last_msg.topic # "none" /\ Malformed(last_msg.topic, last_msg.payload)) =>
        /\ sensor_data = last_msg.before
        /\ last_msg.calls = <<>>
        /\ last_msg.reqs = <<>>

(***************************************************************************)
(* C18: a gyroscope or accelerometer object lacking x, y or z is           *)
(* rejected: the reading stored for the channel stays and no motion alert  *)
(* is evaluated.                                                           *)
(***************************************************************************)
C18_MissingAxisRejected ==
    (/\ last_msg.topic \in AxisChannels
     /\ last_msg.payload.form = "object"
     /\ \E k \in {"x", "y", "z"} : ~Has(last_msg.payload.fields, k)) =>
        /\ sensor_data[last_msg.topic] = last_msg.before[last_msg.topic]
        /\ last_msg.calls = <<>>

\* the value a dual-format payload carries: bare, under a known key (the first of
\* keys that is present), or as the first castable value under unknown keys
Carried(p, keys) ==
    IF p.form = "number" THEN Accept(p.v)
    ELSE IF p.form = "object" /\ Has(p.fields, keys[1]) /\ Get(p.fields, keys[1]).num
        THEN Accept(Get(p.fields, keys[1]).v)
    ELSE IF p.form = "object" /\ ~Has(p.fields, keys[1]) /\ Has(p.fields, keys[2])
            /\ Get(p.fields, keys[2]).num
        THEN Accept(Get(p.fields, keys[2]).v)
    ELSE IF p.form = "object" /\ ~Has(p.fields, keys[1]) /\ ~Has(p.fields, keys[2])
            /\ Castable(p.fields) # <<>>
        THEN Accept(Head(Castable(p.fields)).v)
    ELSE Ignore

KnownKeys(topic) == IF topic = "temp" THEN <<"temp", "temperature">>
                    ELSE <<"alcohol_level", "alcohol">>

(***************************************************************************)
(* C19: on the temperature and alcohol channels the value a payload        *)
(* carries is stored and evaluated alike whether it comes bare, under a    *)
(* known key, or as the first castable value of an object with unknown     *)
(* keys.                                                                   *)
(***************************************************************************)
C19_DualFormatsAgree ==
    (/\ last_msg.topic \in {"temp", "alcohol"}
     /\ Carried(last_msg.payload, KnownKeys(last_msg.topic)).act = "accept") =>
        LET v == Carried(last_msg.payload, KnownKeys(last_msg.topic)).v
        IN  /\ ~last_msg.error
            /\ sensor_data[last_msg.topic] = Value(v, last_msg.t)
            /\ (last_msg.calls # <<>>) <=> (Branches(last_msg.topic, v) # <<>>)

TempValues == {340, 366, 380}

(***************************************************************************)
(* C20: for every value v, the temperature payloads {"temperature": v}     *)
(* and "v" leave the store and the alert evaluation in the same state,     *)
(* with v as the stored reading.                                           *)
(***************************************************************************)
C20_TemperatureFormsAgree ==
    \A v \in TempValues :
        LET asObject == on_message(sensor_data, last_audio_alerts, "temp",
                                   Obj(<<F("temperature", v)>>))
            asBare == on_message(sensor_data, last_audio_alerts, "temp", Num(v))
        IN  /\ asObject = asBare
            /\ asBare.sensor_data["temp"] = Value(v, now)
            /\ (/\ last_msg.topic = "temp"
                /\ last_msg.payload \in {Obj(<<F("temperature", v)>>), Num(v)}
                /\ last_msg.t = now)
                   => sensor_data["temp"] = Value(v, now)

\* 36.6 came bare and then as {"temperature": 36.6}: the store holds 36.6
C20_Witness ==
    /\ nmsg = 2
    /\ last_msg.topic = "temp"
    /\ last_msg.payload = Obj(<<F("temperature", 366)>>)
    /\ last_msg.before["temp"].data = <<F("value", 366)>>
    /\ sensor_data["temp"] = Value(366, last_msg.t)

(***************************************************************************)
(* C21: on the numeric channels (distance, weight value, gyro-y, gyro-z,   *)
(* load, heart rate) a payload that is not a bare float but JSON-decodes   *)
(* to a value castable to float, such as a quoted number, is accepted and  *)
(* stored as that float.                                                   *)
(***************************************************************************)
C21_QuotedNumberAccepted ==
    (/\ last_msg.topic \in PlainChannels \cup {"bpm"}
     /\ last_msg.payload.form = "json_string") =>
        /\ ~last_msg.error
        /\ sensor_data[last_msg.topic] = Value(last_msg.payload.v, last_msg.t)

MaxAudioRequests == 3

\* who asks for a playback through play_audio_threaded
AudioSources == {"evaluator", "scheduler", "dispatcher", "servo_close", "api"}

Playback(src, held) == [id |-> Len(audio_log) + 1, src |-> src, held |-> held]

\* a request in audio_log: outcome is "skipped", "playing", "finishing" (the player is
\* back and audio_playing reset, the lock not yet released) or "done"; result is what
\* the player did
Request(src, outcome) == [src |-> src, outcome |-> outcome, result |-> "none"]

\* what the player may do with a sound: return True, return False, or raise
PlayerResults == {"true", "false", "raised"}

\* audio_task up to the call of the player
audio_task(src) ==
    /\ Len(audio_log) < MaxAudioRequests
    /\ IF ~audio_lock
       THEN /\ audio_lock' = TRUE
            /\ audio_playing' = TRUE
            /\ in_flight' = in_flight \cup {Playback(src, TRUE)}
            /\ audio_log' = Append(audio_log, Request(src, "playing"))
       ELSE /\ audio_log' = Append(audio_log, Request(src, "skipped"))
            /\ UNCHANGED <<audio_lock, audio_playing, in_flight>>
    /\ UNCHANGED <<now, t0, meds, cycleCap, jitterCap, faults, brokerVars, alertVars, raceVars, matchVars,
                   schedVars>>

audio_task_finally_NoFinally(p) ==
    /\ p \in in_flight
    /\ p.held
    /\ in_flight' = in_flight \ {p}
    /\ \E r \in PlayerResults :
           /\ audio_log' = [audio_log EXCEPT ![p.id] =
                               [@ EXCEPT !.outcome = IF r = "raised" THEN "done"
                                                     ELSE "finishing",
                                         !.result = r]]
           /\ audio_playing' = (r = "raised")
    /\ UNCHANGED <<now, t0, meds, cycleCap, jitterCap, faults, brokerVars, audio_lock, alertVars, raceVars,
                   matchVars, schedVars>>

\* the player returned or raised: the except clause, then the first statement of
\* the finally clause of audio_task
audio_task_finally(p) ==
    /\ p \in in_flight
    /\ p.held
    /\ in_flight' = in_flight \ {p}
    /\ \E r \in PlayerResults :
           audio_log' = [audio_log EXCEPT ![p.id] =
                            [@ EXCEPT !.outcome = "finishing", !.result = r]]
    /\ audio_playing' = FALSE
    /\ UNCHANGED <<now, t0, meds, cycleCap, jitterCap, faults, brokerVars, audio_lock, alertVars, raceVars,
                   matchVars, schedVars>>

\* audio_lock.release(), the last statement of audio_task
audio_task_release(i) ==
    /\ i \in 1..Len(audio_log)
    /\ audio_log[i].outcome = "finishing"
    /\ audio_log' = [audio_log EXCEPT ![i] = [@ EXCEPT !.outcome = "done"]]
    /\ audio_lock' = FALSE
    /\ UNCHANGED <<now, t0, meds, cycleCap, jitterCap, faults, brokerVars, audio_playing, in_flight,
                   alertVars, raceVars, matchVars, schedVars>>

\* POST /api/audio/test up to the call of the player
test_audio ==
    /\ Len(audio_log) < MaxAudioRequests
    /\ in_flight' = in_flight \cup {Playback("test_audio", FALSE)}
    /\ audio_log' = Append(audio_log, Request("test_audio", "playing"))
    /\ UNCHANGED <<now, t0, meds, cycleCap, jitterCap, faults, brokerVars, audio_lock, audio_playing,
                   alertVars, raceVars, matchVars, schedVars>>

\* the player returned to test_audio, which answers the request
test_audio_return(p) ==
    /\ p \in in_flight
    /\ ~p.held
    /\ in_flight' = in_flight \ {p}
    /\ UNCHANGED <<now, t0, meds, cycleCap, jitterCap, faults, brokerVars, audio_lock, audio_playing,
                   audio_log, alertVars, raceVars, matchVars, schedVars>>

NextAudio ==
    \/ \E src \in AudioSources : audio_task(src)
    \/ \E p \in in_flight : audio_task_finally(p)
    \/ \E i \in 1..MaxAudioRequests : audio_task_release(i)
    \/ test_audio
    \/ \E p \in in_flight : test_audio_return(p)

\* playback requests from every path, in any interleaving
AudioSpec == InitAlertSpec /\ [][NextAudio]_vars

(***************************************************************************)
(* C23: at every instant at most one audio playback is in flight           *)
(* system-wide, over all request paths (alert evaluator, scheduler,        *)
(* dispatcher, servo-close task, API handlers); a request that arrives     *)
(* while another is in flight is dropped, without being queued or retried  *)
(* and without an error.                                                   *)
(***************************************************************************)
C23_SingleAudioSlot ==
    /\ Cardinality(in_flight) <= 1
    /\ \A i \in 1..Len(audio_log) :
           (audio_log[i].outcome = "skipped") => ~(\E p \in in_flight : p.id = i)

(***************************************************************************)
(* The monitor loop with a transport that may refuse a command: publish    *)
(* raises, or returns an error code without raising.  Schedules with a     *)
(* time string that does not parse stand before and among the due ones.    *)
(***************************************************************************)
Faults == {"raises", "unsent", "find_raises"}

MedGarbled == Med(1, "daily", {}, <<T(0, 0, "BAD")>>)
MedBreakfast == Med(3, "daily", {}, <<T(0, 0, "BAD"), T(7, 30, "AM")>>)
MedDinner == Med(3, "daily", {}, <<T(0, 0, "BAD"), T(7, 30, "PM")>>)

FaultScheduleLists ==
    { <<MedSupper, MedPm>>, <<MedAm, MedBreakfast>>, <<MedGarbled, MedPm, MedDinner>> }

FaultStartTimes == { At(0, 7, 30, 0), At(0, 19, 30, 0) }

\* the monitor loop as started by the main program, in a run where f may go wrong
StartedLoop(starts, lists, cap, f) ==
    /\ now \in starts
    /\ t0 = now
    /\ meds \in lists
    /\ cycleCap = cap
    /\ jitterCap = 0
    /\ faults = f
    /\ medication_monitoring_active = TRUE
    /\ nLoops = 1
    /\ last_dispensed_medications = [i \in MedIds |-> NoRecord]
    /\ pc = [r \in Runners |-> IF r = 1 THEN "test" ELSE "idle"]
    /\ idx = [r \in Runners |-> 0]
    /\ cycleTime = [r \in Runners |-> 0]
    /\ wake = [r \in Runners |-> 0]
    /\ use_stepper = [r \in Runners |-> TRUE]
    /\ cycles = [r \in Runners |-> 0]
    /\ servo_threads = <<>>
    /\ events = <<>>
    /\ apiCalls = 0
    /\ lastOp = "started"
    /\ InitAlert /\ InitRace /\ InitMatch /\ InitAudio /\ InitBroker

StartedFault ==
    StartedLoop(FaultStartTimes, FaultScheduleLists, MaxDueCycles, {"raises", "unsent"})

FaultSpec == StartedFault /\ [][NextDue]_vars

\* a command the broker connection took
IsSent(e) == e.kind = "stepper" \/ (e.kind = "servo" /\ e.what = SERVO_OPEN)

(***************************************************************************)
(* C24: a schedule's dispense time is recorded only when the actuator      *)
(* command was handed to the transport; when the stepper or servo publish  *)
(* fails, dispense_pill_automatically reports failure and the schedule's   *)
(* entry of last_dispensed_medications is not written.                     *)
(***************************************************************************)
C24_RecordedOnlyWhenHandedOver ==
    /\ \A id \in MedIds :
           (last_dispensed_medications[id] # NoRecord) =>
               \E i \in 1..Len(events) :
                   /\ IsSent(events[i])
                   /\ events[i].med = id
                   /\ events[i].t = last_dispensed_medications[id]
    /\ \A i \in 1..Len(events) :
           (events[i].kind = "returned") =>
               last_dispensed_medications[events[i].med] # events[i].t

\* schedule med was due in the cycle runner r has just been through: it matches the
\* instant taken at the start of the cycle and its cooldown was over then
WasDue(med, r) ==
    /\ should_dispense_medication(med, cycleTime[r])
    /\ current_time_matches(med, cycleTime[r]) # <<>>
    /\ \/ last_dispensed_medications[med.id] = NoRecord
       \/ last_dispensed_medications[med.id] >= cycleTime[r]
       \/ cycleTime[r] - last_dispensed_medications[med.id] >= DISPENSE_COOLDOWN

\* a call of publish with an actuator command, whatever came of it
IsAttempt(e) ==
    \/ e.kind \in {"stepper", "stepper_unsent", "stepper_raised"}
    \/ e.kind \in {"servo", "servo_unsent", "servo_raised"} /\ e.what = SERVO_OPEN

(***************************************************************************)
(* C25: within one poll cycle a failure on one schedule (a time string     *)
(* that does not parse, a dispatch that fails) does not stop the cycle:    *)
(* when the cycle has ended, every due schedule, also one that stands      *)
(* after a failed one, has had its advisory requested and its actuator     *)
(* command attempted in that cycle.                                        *)
(***************************************************************************)
C25_FailureDoesNotStopCycle ==
    \A l \in Loops :
        (pc[l] = "sleep") =>
            \A k \in 1..Len(Cursor) :
                WasDue(Cursor[k], l) =>
                    /\ \E i \in 1..Len(events) :
                           /\ events[i].kind = "audio" /\ events[i].what = "time_to_take"
                           /\ events[i].med = Cursor[k].id /\ events[i].by = l
                           /\ events[i].t >= cycleTime[l]
                    /\ \E i \in 1..Len(events) :
                           /\ IsAttempt(events[i])
                           /\ events[i].med = Cursor[k].id /\ events[i].by = l
                           /\ events[i].t >= cycleTime[l]

\* the first cycle is over: the first schedule's only time string did not parse,
\* the second's servo publish raised, and the third was dispensed all the same
C25_Witness ==
    /\ meds = <<MedGarbled, MedPm, MedDinner>>
    /\ pc[1] = "sleep" /\ cycles[1] = 1
    /\ \E i, j \in 1..Len(events) :
           /\ i < j
           /\ events[i].kind = "servo_raised" /\ events[i].med = 2
           /\ events[j].kind = "servo" /\ events[j].med = 3
    /\ last_dispensed_medications[2] = NoRecord
    /\ last_dispensed_medications[3] # NoRecord

(***************************************************************************)
(* The monitor loop as started by the main program, with a database that   *)
(* may fail a query: the loop, stop requests and the servo-close threads,  *)
(* every thread that can run being scheduled, and time passing             *)
(***************************************************************************)
FairStartTimes == { At(0, 19, 30, 0) }

FairScheduleLists == { <<MedPm>>, <<MedSupper, MedPm>> }

InitFairFault ==
    StartedLoop(FairStartTimes, FairScheduleLists, MaxConcCycles, {"find_raises"})

NextFairFault ==
    \/ stop_medication_monitoring
    \/ \E l \in Loops : ThreadStep(l)
    \/ ServoStep
    \/ Tick

FairFaultSpec ==
    InitFairFault /\ [][NextFairFault]_vars /\ Fairness /\ WF_vars(ServoStep)

\* the cycle loop l is in, or has last been in, failed with an error
CycleFailed(l) ==
    \E i \in 1..Len(events) :
        /\ events[i].kind = "error"
        /\ events[i].by = l
        /\ events[i].t = cycleTime[l]

(***************************************************************************)
(* C26: while monitoring is active, a cycle that fails with an error does  *)
(* not end the monitor loop: the loop goes on to its sleep, and after the  *)
(* failing cycle a further cycle is eventually run unless monitoring is    *)
(* stopped.                                                                *)
(***************************************************************************)
C26_FailedCycleIsFollowed ==
    /\ [][ \A l \in Loops :
              (pc[l] # "done" /\ pc'[l] = "done") => ~medication_monitoring_active ]_vars
    /\ [][ \A l \in Loops :
              (CycleFailed(l) /\ pc[l] = "scan") => pc'[l] \in {"scan", "sleep"} ]_vars
    /\ \A l \in Loops : \A n \in 1..MaxConcCycles :
           (CycleFailed(l) /\ pc[l] # "done" /\ cycles[l] = n /\ n < cycleCap)
               ~> (cycles[l] > n \/ ~medication_monitoring_active)

\* the first cycle of a loop failed, and the loop has begun its second one
C26_Witness ==
    /\ medication_monitoring_active
    /\ cycles[1] = 2
    /\ pc[1] = "scan"
    /\ \E i \in 1..Len(events) :
           events[i].kind = "error" /\ events[i].by = 1 /\ events[i].t < cycleTime[1]

IsOpen(e) == e.kind = "servo" /\ e.what = SERVO_OPEN

IsClose(e) == e.kind = "servo" /\ e.what = SERVO_CLOSE

\* the servo commands for schedule id published so far, by angle
Opens(id) == {i \in 1..Len(events) : IsOpen(events[i]) /\ events[i].med = id}

Closes(id) == {i \in 1..Len(events) : IsClose(events[i]) /\ events[i].med = id}

MaxServoDispenses == 2

(***************************************************************************)
(* C27: every servo dispense publishes the open command (90) first and,    *)
(* SERVO_DELAY seconds later or more, eventually the close command (0).    *)
(* The delay and the close run in a thread of their own: the step that     *)
(* publishes the open command leaves the cycle free to go on to the next   *)
(* schedule, without a wait for the close.                                 *)
(***************************************************************************)
C27_OpenThenClose ==
    /\ [](\A id \in MedIds : \A j \in Closes(id) :
              \E i \in Opens(id) :
                  i < j /\ events[j].t >= events[i].t + SERVO_DELAY)
    /\ [](\A id \in MedIds : Cardinality(Closes(id)) <= Cardinality(Opens(id)))
    /\ [][ \A l \in Loops :
              (pc[l] = "pause" /\ ~use_stepper[l] /\ pc'[l] # "pause")
                  => /\ pc'[l] = "scan"
                     /\ Len(servo_threads') = Len(servo_threads) + 1
                     /\ IsOpen(events'[Len(events) + 1]) ]_vars
    /\ \A id \in MedIds : \A n \in 1..MaxServoDispenses :
           (Cardinality(Opens(id)) >= n) ~> (Cardinality(Closes(id)) >= n)

\* the cycle that opened the servo is over and its loop asleep while the close is
\* still to come; an earlier dispense of the cycle has been closed already
C27_Witness ==
    /\ meds = <<MedSupper, MedPm>>
    /\ pc[1] = "sleep"
    /\ Cardinality(Opens(1)) = 1 /\ Cardinality(Closes(1)) = 1
    /\ Cardinality(Opens(2)) = 1 /\ Cardinality(Closes(2)) = 0
    /\ Len(servo_threads) = 1

\* the last event runner r produced
LastBy(r) ==
    events[CHOOSE i \in 1..Len(events) :
               events[i].by = r /\ \A j \in (i + 1)..Len(events) : events[j].by # r]

(***************************************************************************)
(* C28: for every dispense the monitor loop issues, the events come in the *)
(* order: "time to take medication" advisory requested, pause, actuator    *)
(* command published, dispense time recorded.  The loop publishes no       *)
(* actuator command for a schedule that is in cooldown or not due, and     *)
(* none without having requested the advisory first in the same cycle.     *)
(***************************************************************************)
C28_AdvisoryPauseCommandRecord ==
    [][ \A l \in Loops :
           (/\ Len(events') > Len(events)
            /\ IsAttempt(events'[Len(events) + 1])
            /\ events'[Len(events) + 1].by = l)
           => LET e == events'[Len(events) + 1]
                  med == Cursor[idx[l]]
              IN  /\ pc[l] = "pause"
                  /\ e.med = med.id
                  /\ \E i \in 1..Len(events) : events[i].by = l
                  /\ LastBy(l).kind = "audio"
                  /\ LastBy(l).what = "time_to_take"
                  /\ LastBy(l).med = med.id
                  /\ LastBy(l).t >= cycleTime[l]
                  /\ e.t >= LastBy(l).t + ALERT_PAUSE
                  /\ ~InCooldown(med.id, cycleTime[l])
                  /\ should_dispense_medication(med, LastBy(l).t)
                  /\ current_time_matches(med, cycleTime[l]) # <<>>
                  /\ last_dispensed_medications[med.id] # e.t
                  /\ last_dispensed_medications'[med.id] = e.t ]_vars

\* the 7:30 PM schedule: advisory at 19:30:00, servo opened and the time recorded
\* at 19:30:02
C28_Witness ==
    /\ meds = <<MedPm>>
    /\ Len(events) >= 2
    /\ events[1].kind = "audio" /\ events[1].what = "time_to_take"
    /\ events[1].t = At(0, 19, 30, 0)
    /\ IsOpen(events[2]) /\ events[2].t = At(0, 19, 30, 0) + ALERT_PAUSE
    /\ last_dispensed_medications[2] = events[2].t

(***************************************************************************)
(* C29: in a poll cycle every schedule that is out of cooldown and matches *)
(* the clock instant taken at the start of the cycle is dispatched in that *)
(* cycle, however many schedules were dispensed (each with its pause)      *)
(* before it: the due decision, which reads the clock again, and the       *)
(* matched-time list of the cycle-start instant never disagree.            *)
(***************************************************************************)
C29_DueAtCycleStartIsDispatched ==
    \A l \in Loops :
        (pc[l] = "sleep") =>
            \A k \in 1..Len(Cursor) :
                WasDue(Cursor[k], l) =>
                    last_dispensed_medications[Cursor[k].id] >= cycleTime[l]

(***************************************************************************)
(* C30: after each servo open command (90) the servo is left open for the  *)
(* full close delay: no close command (0) is published between an open     *)
(* command and the end of that open's own SERVO_DELAY seconds, also when   *)
(* two servo dispenses are issued ALERT_PAUSE seconds apart in one cycle.  *)
(***************************************************************************)
C30_OpenForFullDelay ==
    \A i, j \in 1..Len(events) :
        (i < j /\ IsOpen(events[i]) /\ IsClose(events[j]))
            => events[j].t >= events[i].t + SERVO_DELAY

(***************************************************************************)
(* The audio tasks under scheduling: a player call comes back (the sound   *)
(* ends, the player gives up, or it raises) and a task that can run does   *)
(***************************************************************************)
AudioTaskStep ==
    \/ \E p \in in_flight : audio_task_finally(p)
    \/ \E i \in 1..MaxAudioRequests : audio_task_release(i)

AudioFairSpec == InitAlertSpec /\ [][NextAudio]_vars /\ WF_vars(AudioTaskStep)

\* the requests whose task holds audio_lock
Holders == {i \in 1..Len(audio_log) : /\ audio_log[i].src \in AudioSources
                                       /\ audio_log[i].outcome \in {"playing", "finishing"}}

(***************************************************************************)
(* C32: the audio slot is never leaked.  A task that acquired audio_lock   *)
(* resets audio_playing and releases the lock after the player returned    *)
(* true, returned false or raised, so the lock always becomes free again   *)
(* and a later request can acquire it; audio_playing is true only while    *)
(* the lock is held.                                                       *)
(***************************************************************************)
C32_SlotNeverLeaked ==
    /\ [](audio_playing => audio_lock)
    /\ [](audio_lock <=> Holders # {})
    /\ [](Cardinality(Holders) <= 1)
    /\ [](audio_playing <=> \E p \in in_flight : p.held)
    /\ [](\A i \in 1..Len(audio_log) :
              (audio_log[i].outcome \in {"finishing", "done"})
                  => /\ audio_log[i].result \in PlayerResults
                     /\ ~(\E p \in in_flight : p.id = i))
    /\ audio_lock ~> ~audio_lock

\* a playback that raised and one that returned false are over, and a third request
\* has acquired the slot
C32_Witness ==
    /\ Len(audio_log) = 3
    /\ audio_log[1].outcome = "done" /\ audio_log[1].result = "raised"
    /\ audio_log[2].outcome = "done" /\ audio_log[2].result = "false"
    /\ audio_log[3].outcome = "playing" /\ audio_log[3].src = "evaluator"
    /\ audio_lock /\ audio_playing

(***************************************************************************)
(* The ingestion path together with the audio slot: a request of the alert *)
(* evaluator goes through play_audio_threaded, whose audio_task takes the  *)
(* lock or gives up, while the scheduler's cues compete for the same lock  *)
(***************************************************************************)
AlertMessages == { Msg("temp", Num(380)), Msg("bpm", Num(1000)) }

\* cues the scheduler asks for in a run
MaxCues == 1

Cues == {i \in 1..Len(audio_log) : audio_log[i].src = "scheduler"}

DeliverAndPlay_RecordOnPlay(m) ==
    /\ nmsg < MaxMessages
    /\ LET o == on_message(sensor_data, last_audio_alerts, m.topic, m.payload)
       IN  /\ sensor_data' = o.sensor_data
           /\ last_audio_alerts' = IF o.reqs # <<>> /\ audio_lock THEN last_audio_alerts ELSE o.alerts
           /\ alog' = alog \o o.calls
           /\ areqs' = areqs \o o.reqs
           /\ last_msg' = [topic |-> m.topic, payload |-> m.payload, t |-> now,
                           before |-> sensor_data, alerts |-> last_audio_alerts,
                           calls |-> o.calls, reqs |-> o.reqs, error |-> o.error]
           /\ IF o.reqs = <<>>
              THEN UNCHANGED audioVars
              ELSE IF ~audio_lock
              THEN /\ audio_lock' = TRUE
                   /\ audio_playing' = TRUE
                   /\ in_flight' = in_flight \cup {Playback("evaluator", TRUE)}
                   /\ audio_log' = Append(audio_log, Request("evaluator", "playing"))
              ELSE /\ audio_log' = Append(audio_log, Request("evaluator", "skipped"))
                   /\ UNCHANGED <<audio_lock, audio_playing, in_flight>>
    /\ nmsg' = nmsg + 1
    /\ UNCHANGED <<now, t0, meds, cycleCap, jitterCap, faults, brokerVars, aticks, raceVars, matchVars,
                   schedVars>>

\* one call of on_message, with the audio_task of the request it makes
DeliverAndPlay(m) ==
    /\ nmsg < MaxMessages
    /\ LET o == on_message(sensor_data, last_audio_alerts, m.topic, m.payload)
       IN  /\ sensor_data' = o.sensor_data
           /\ last_audio_alerts' = o.alerts
           /\ alog' = alog \o o.calls
           /\ areqs' = areqs \o o.reqs
           /\ last_msg' = [topic |-> m.topic, payload |-> m.payload, t |-> now,
                           before |-> sensor_data, alerts |-> last_audio_alerts,
                           calls |-> o.calls, reqs |-> o.reqs, error |-> o.error]
           /\ IF o.reqs = <<>>
              THEN UNCHANGED audioVars
              ELSE IF ~audio_lock
              THEN /\ audio_lock' = TRUE
                   /\ audio_playing' = TRUE
                   /\ in_flight' = in_flight \cup {Playback("evaluator", TRUE)}
                   /\ audio_log' = Append(audio_log, Request("evaluator", "playing"))
              ELSE /\ audio_log' = Append(audio_log, Request("evaluator", "skipped"))
                   /\ UNCHANGED <<audio_lock, audio_playing, in_flight>>
    /\ nmsg' = nmsg + 1
    /\ UNCHANGED <<now, t0, meds, cycleCap, jitterCap, faults, brokerVars, aticks, raceVars, matchVars,
                   schedVars>>

NextAlertAudio ==
    \/ \E m \in AlertMessages : DeliverAndPlay(m)
    \/ Cardinality(Cues) < MaxCues /\ audio_task("scheduler")
    \/ \E p \in in_flight : audio_task_finally(p)
    \/ \E i \in 1..(MaxCues + MaxMessages) : audio_task_release(i)
    \/ nmsg > 0 /\ IngestTick          \* time matters from the first alert on

AlertAudioSpec == InitAlertSpec /\ [][NextAlertAudio]_vars

(***************************************************************************)
(* C31: the throttle records a firing at approval time, whatever becomes   *)
(* of the playback.  When the approved alert's audio request is dropped    *)
(* because the slot is busy, or the playback fails, the class's entry of   *)
(* last_audio_alerts is the approval instant all the same, and further     *)
(* alerts of the class within AUDIO_COOLDOWN are suppressed: an alert      *)
(* condition can pass with no sound played.                                *)
(***************************************************************************)
C31_FiringRecordedAtApproval ==
    /\ (last_msg.topic # "none" /\ last_msg.reqs # <<>>) =>
           last_audio_alerts[last_msg.reqs[1].cls] = last_msg.t
    /\ \A i \in 1..Len(alog) :
           alog[i].ok => last_audio_alerts[alog[i].cls] >= alog[i].t
    /\ \A i, j \in 1..Len(alog) :
           (/\ i < j
            /\ alog[i].ok
            /\ alog[j].cls = alog[i].cls
            /\ alog[j].t - alog[i].t < AUDIO_COOLDOWN) => ~alog[j].ok

\* a scheduler cue holds the slot; a high temperature is approved and its request
\* dropped; one second later the next high temperature is suppressed: no alert sound
\* was played
C31_Witness ==
    /\ Len(audio_log) = 2
    /\ audio_log[1].src = "scheduler"
    /\ audio_log[2].src = "evaluator" /\ audio_log[2].outcome = "skipped"
    /\ Len(alog) = 2
    /\ alog[1].cls = "high_temp" /\ alog[1].ok
    /\ alog[2].cls = "high_temp" /\ ~alog[2].ok
    /\ alog[2].t = alog[1].t + 1
    /\ last_audio_alerts["high_temp"] = alog[1].t

\* ---------------------------------------------------------------------------
\* SimpleMQTTBroker (simple_mqtt_broker.py).  One handle_client thread runs per
\* connection and the broker takes no lock: the threads interleave between the
\* statements of subscribe_client, and between the sends of publish_message.
\* ---------------------------------------------------------------------------

nonBrokerVars == <<now, t0, meds, cycleCap, jitterCap, faults, audioVars, alertVars, raceVars,
                   matchVars, schedVars>>

\* dict and set updates on the two tables
Put(f, k, v) == [x \in DOMAIN f \cup {k} |-> IF x = k THEN v ELSE f[x]]

Del(f, k) == [x \in DOMAIN f \ {k} |-> f[x]]

\* disconnect_client, the subscription table it leaves: the client is discarded
\* from every topic of its own set, and a set that becomes empty is deleted
Unsubscribed(cl, subs, c) ==
    IF c \in DOMAIN cl
    THEN LET kept == { t \in DOMAIN subs : ~(t \in cl[c]) \/ subs[t] \ {c} # {} }
         IN  [t \in kept |-> IF t \in cl[c] THEN subs[t] \ {c} ELSE subs[t]]
    ELSE subs

\* disconnect_client, the client table it leaves
Forgotten(cl, c) == IF c \in DOMAIN cl THEN Del(cl, c) ELSE cl

\* handle_client, up to the receive loop: the connection is registered with an
\* empty subscription set
handle_client(c) ==
    /\ bpc[c] = "none"
    /\ clients' = Put(clients, c, {})
    /\ bpc' = [bpc EXCEPT ![c] = "recv"]
    /\ UNCHANGED <<subscriptions, btopic, bpending, deliveries, nonBrokerVars>>

\* a SUBSCRIBE frame arrives: subscribe_client tests that the client is known
subscribe_client(c, topic) ==
    /\ bpc[c] = "recv"
    /\ bpc' = [bpc EXCEPT ![c] = IF c \in DOMAIN clients THEN "own" ELSE "recv"]
    /\ btopic' = [btopic EXCEPT ![c] = topic]
    /\ UNCHANGED <<clients, subscriptions, bpending, deliveries, nonBrokerVars>>

\* subscribe_client, the topic is added to the client's own set; the lookup
\* raises KeyError once the client is deleted, and the receive loop swallows it
subscribe_own(c) ==
    /\ bpc[c] = "own"
    /\ IF c \in DOMAIN clients
       THEN /\ clients' = [clients EXCEPT ![c] = @ \cup {btopic[c]}]
            /\ bpc' = [bpc EXCEPT ![c] = "index"]
       ELSE /\ bpc' = [bpc EXCEPT ![c] = "recv"]
            /\ UNCHANGED clients
    /\ UNCHANGED <<subscriptions, btopic, bpending, deliveries, nonBrokerVars>>

\* subscribe_client, the client is added to the topic's set, created if absent
subscribe_index(c) ==
    /\ bpc[c] = "index"
    /\ subscriptions' =
           Put(subscriptions, btopic[c],
               (IF btopic[c] \in DOMAIN subscriptions THEN subscriptions[btopic[c]] ELSE {})
                   \cup {c})
    /\ bpc' = [bpc EXCEPT ![c] = "recv"]
    /\ UNCHANGED <<clients, btopic, bpending, deliveries, nonBrokerVars>>

\* a PUBLISH frame arrives: publish_message copies the topic's subscriber set
publish_message(c, topic) ==
    /\ bpc[c] = "recv"
    /\ bpc' = [bpc EXCEPT ![c] = "send"]
    /\ btopic' = [btopic EXCEPT ![c] = topic]
    /\ bpending' = [bpending EXCEPT ![c] =
           IF topic \in DOMAIN subscriptions THEN subscriptions[topic] ELSE {}]
    /\ UNCHANGED <<clients, subscriptions, deliveries, nonBrokerVars>>

\* publish_message, one turn of the loop over the copy: the sender and the
\* clients already gone are skipped; a send that raises disconnects the recipient
publish_send(c) ==
    /\ bpc[c] = "send"
    /\ \E d \in bpending[c] :
        /\ bpending' = [bpending EXCEPT ![c] = @ \ {d}]
        /\ IF d # c /\ d \in DOMAIN clients
           THEN \E ok \in BOOLEAN :
                IF ok
                THEN /\ deliveries' = deliveries \cup
                                      {[topic |-> btopic[c], sender |-> c, to |-> d]}
                     /\ UNCHANGED <<clients, subscriptions>>
                ELSE /\ subscriptions' = Unsubscribed(clients, subscriptions, d)
                     /\ clients' = Forgotten(clients, d)
                     /\ UNCHANGED deliveries
           ELSE UNCHANGED <<clients, subscriptions, deliveries>>
    /\ UNCHANGED <<bpc, btopic, nonBrokerVars>>

\* publish_message returns once the copy is exhausted
publish_done(c) ==
    /\ bpc[c] = "send"
    /\ bpending[c] = {}
    /\ bpc' = [bpc EXCEPT ![c] = "recv"]
    /\ UNCHANGED <<clients, subscriptions, btopic, bpending, deliveries, nonBrokerVars>>

\* recv returns nothing or raises: the finally of handle_client calls
\* disconnect_client for the thread's own client and the thread ends
disconnect_client(c) ==
    /\ bpc[c] = "recv"
    /\ subscriptions' = Unsubscribed(clients, subscriptions, c)
    /\ clients' = Forgotten(clients, c)
    /\ bpc' = [bpc EXCEPT ![c] = "none"]
    /\ UNCHANGED <<btopic, bpending, deliveries, nonBrokerVars>>

NextBroker ==
    \/ \E c \in ClientIds : handle_client(c)
    \/ \E c \in ClientIds, topic \in BrokerTopics : subscribe_client(c, topic)
    \/ \E c \in ClientIds : subscribe_own(c)
    \/ \E c \in ClientIds : subscribe_index(c)
    \/ \E c \in ClientIds, topic \in BrokerTopics : publish_message(c, topic)
    \/ \E c \in ClientIds : publish_send(c)
    \/ \E c \in ClientIds : publish_done(c)
    \/ \E c \in ClientIds : disconnect_client(c)

BrokerSpec == InitAlertSpec /\ [][NextBroker]_vars

\* no handle_client thread is inside subscribe_client or publish_message
BrokerQuiet == \A c \in ClientIds : bpc[c] \in {"none", "recv"}

\* C33: once the operations under way have returned, a client id is in
\* subscriptions[topic] only if it is in clients and the topic is in that
\* client's own set, subscriptions holds no empty set, a client that is not in
\* clients is in no subscription set, and no message was sent to its sender
C33_BrokerTablesConsistent ==
    BrokerQuiet =>
        /\ \A t \in DOMAIN subscriptions : \A c \in subscriptions[t] :
               c \in DOMAIN clients /\ t \in clients[c]
        /\ \A t \in DOMAIN subscriptions : subscriptions[t] # {}
        /\ \A c \in ClientIds : ~(c \in DOMAIN clients) =>
               \A t \in DOMAIN subscriptions : ~(c \in subscriptions[t])
        /\ \A d \in deliveries : d.sender # d.to
====
